---- MODULE Spec2Model ----
(***************************************************************************)
(* A model of naive-db: the LRU record, the buffer pool (page manager)     *)
(* over the file manager, the slotted table layout with its page chains,   *)
(* the column indices, the catalog and the statement executor.             *)
(*                                                                         *)
(* The module holds several specifications over one set of variables:      *)
(*   SpecPool   the page manager driven directly (open/close/read/modify)  *)
(*   SpecTable  one table driven through Table::insert/delete/update       *)
(*   SpecExec   the catalog and the executor (DDL, DML, write_back)        *)
(***************************************************************************)
EXTENDS Integers, Sequences, FiniteSets, TLC

(***************************************************************************)
(* Bounds.  The page geometry is scaled down: the program's slot bitmap    *)
(* holds 56 bytes of 8 bits and a page 8128 payload bytes.                 *)
(***************************************************************************)
\* buffers of the pool the pool specification runs (config.rs LRU_SIZE, scaled)
PoolSize == 2
\* buffers of the pool the table and executor specifications run
TablePoolSize == 1
\* bytes of FixedPageHeader::slot (56 in the program)
SlotBytes == 2
\* bits of one byte of the slot bitmap (8 in the program)
BitsPerByte == 2
\* payload bytes of a page, PAGE_SIZE - PAGE_HEADER_LEN (8128 in the program)
DataSize == 6
\* bytes of an INT column (4 in the program)
IntSize == 1
\* columns a table may have
MaxCols == 1
\* columns a slot of a page has room for
MaxWidth == 2
\* greatest page number the model touches in a file
MaxPage == 2
\* greatest column value of the model
MaxVal == 2
\* tables of the database
MaxTables == 3
\* modulus of the u32 counter rest_slot (2^32 in the program)
RestSlotMod == 256
\* rows a table is ever given
MaxInserts == 3
\* greatest byte pattern the pool operations write into a page
MaxPattern == 1
\* tables the statements name
ExecTables == 2
\* rows the statements give a table
MaxRows == 2
\* statements of one process after its USE
MaxStmts == 5
\* statements of one process on the chain of tables
MaxChainStmts == 5
\* statements, USE and returns of main of a sequence of processes
MaxSessionStmts == 6
\* statements run on the table with a primary key
MaxKeyStmts == 3
\* statements run on a referenced table and the table that references it
MaxCascadeStmts == 5
\* ALTER TABLE, CREATE INDEX, INSERT and DELETE statements of a process
MaxAlterStmts == 4
\* greatest length of a column list given to Table::create_index
MaxIndexLen == 4
\* rows of the table an index is built over
MaxIndexRows == 2
\* statements that change the schema of a database
MaxSchemaStmts == 4
\* FOREIGN KEY constraints of one CREATE TABLE
MaxFks == 2
\* CREATE DATABASE, USE and DROP DATABASE statements of a process
MaxDbStmts == 5
\* statements of a process before its write_back
MaxShutdownStmts == 4

\* config.rs PAGE_SIZE in bytes, for the file manager taken byte by byte
PAGE_SIZE == 2
\* the greatest byte value of a buffer written to a file
MaxByte == 1
\* the greatest page number read or written in a file
MaxFilePage == 3

\* INSERT, UPDATE and CREATE INDEX statements taken step by step
MaxRowStmts == 4
\* records of one INSERT
MaxRecords == 2

\* pages of the file whose chains PageIter::remove is run on
ChainPages == 4

\* statements run on the table whose index entries are compared
MaxOrderStmts == 5

\* greatest rest_slot from which a table operation starts
MaxRestSlot == 15
\* greatest number of slots reserve_for is asked for
MaxReserve == 7

\* CREATE TABLE and DROP TABLE statements of one process
MaxCreateStmts == 4

\* calls of the pool whose files need not be open
MaxPoolCalls == 6

\* statements of a batch file
MaxBatch == 3
\* statements of a session that switches databases
MaxSwitchStmts == 6
\* rows of the table whose index entries are compared
MaxEntries == 3
\* indices of the LruRecord under test
LruSize == 3
\* statements run before a query
MaxQueryStmts == 4
\* nesting of Not, And and Or in a WHERE clause
MaxDepth == 2
\* comparisons a WHERE clause may name
MaxTerms == 2

\* PAGE_NUM_ON_CREATE: pages a fresh file is extended to
\* config.rs MAX_COMP_INDEX
MAX_COMP_INDEX == 3

PAGE_NUM_ON_CREATE == 2

NoPage == <<>>
NULL == -1

Cols == 0 .. (MaxWidth - 1)
PageNums == 0 .. MaxPage

\* FixedPageHeader::max_slot(): the bits of the slot bitmap
FixedMaxSlot == SlotBytes * BitsPerByte

\* the value v under the name the operator In gives it
Let(v, In(_)) == In(v)

Min(a, b) == IF a < b THEN a ELSE b

(***************************************************************************)
(* Pages.  A page is its header (prev_page, next_page, slot bitmap as the  *)
(* set of set bits) and its payload: per slot a null bitmap (the set of    *)
(* set bits) and the column bytes (an INT per column, 0 when never         *)
(* written).                                                               *)
(***************************************************************************)
ZeroSlot == [nullbits |-> {}, vals |-> [c \in Cols |-> 0]]

\* PageBuf::new: all bytes zero
ZeroPage ==
  [prev_page |-> 0, next_page |-> 0, slot |-> {},
   data |-> [s \in 0 .. (FixedMaxSlot - 1) |-> ZeroSlot]]

\* A page whose bytes all follow one pattern v (tests.rs fills a page with
\* the repeated decimal of a number); pattern 0 is the zero page.
FillPage(v) ==
  IF v = 0 THEN ZeroPage
  ELSE [prev_page |-> v, next_page |-> v, slot |-> 0 .. (FixedMaxSlot - 1),
        data |-> [s \in 0 .. (FixedMaxSlot - 1) |->
                    [nullbits |-> Cols, vals |-> [c \in Cols |-> v]]]]

(***************************************************************************)
(* utils/lru.rs: LruRecord.  data[0] is the sentinel, data[i+1] the node   *)
(* of index i; each entry is <<prev, next>>.                               *)
(***************************************************************************)
LruNew(n) ==
  [i \in 0 .. n |->
     IF i = 0 THEN <<n, 1>>
     ELSE IF i = n THEN <<n - 1, 0>>
     ELSE <<i - 1, i + 1>>]

LruLink(d, i, j) ==
  IF i = 0 /\ j = 0 THEN d
  ELSE LET d1 == [d EXCEPT ![i] = <<d[i][1], j>>]
       IN  [d1 EXCEPT ![j] = <<i, d1[j][2]>>]

LruClear(d, i) == [d EXCEPT ![i] = <<i, i>>]

LruRemove(d, i) == LruClear(LruLink(d, d[i][1], d[i][2]), i)

LruAccess(d, idx) ==
  LET i == idx + 1
  IN  IF i >= Cardinality(DOMAIN d) THEN d
      ELSE LET prev_head == d[0][2]
               d1 == LruRemove(d, i)
               d2 == LruLink(d1, 0, i)
           IN  LruLink(d2, i, prev_head)

LruFindFurthest(d) == d[0][1] - 1

(***************************************************************************)
(* State.                                                                  *)
(*   pm    the PAGE_MANAGER static: file_record (the open files),          *)
(*         index_record (per buffer the <<file, page>> it holds, or        *)
(*         NoPage), page_cache, lru and dirty (the set of dirty buffers)   *)
(*   disk  the data files: per name whether it exists and its pages        *)
(*   ret   the outcome of the last operation                               *)
(*   expect  history: per file and page the bytes last written through     *)
(*         modify_page                                                     *)
(*   db    the DATABASE static: current (the directory in use, "" when    *)
(*         none), id_record (table name -> id) and current_tables (id ->   *)
(*         the loaded Table)                                               *)
(*   files the catalog files of the database directory: tablemeta (the     *)
(*         stored id_record) and metadata (per table name the stored       *)
(*         TableMeta)                                                      *)
(***************************************************************************)
VARIABLES pm, disk, db, files, ret, expect

vars == <<pm, disk, db, files, ret, expect>>

NameOf(i) == <<"t0", "t1", "t2", "t3", "t4">>[i + 1]

TableIds == 0 .. (MaxTables - 1)

Names == {NameOf(i) : i \in TableIds}

\* maps with a changing key set (HashMap, BiHashMap)
Put(map, k, v) == [x \in (DOMAIN map) \cup {k} |-> IF x = k THEN v ELSE map[x]]

Drop(map, k) == [x \in (DOMAIN map) \ {k} |-> map[x]]

\* Database::new
DatabaseNew == [current |-> "", id_record |-> <<>>, current_tables |-> <<>>]

\* no database directory yet
NoFiles == [tablemeta |-> <<>>, metadata |-> <<>>]

NoFile == [exists |-> FALSE, pages |-> <<>>]

\* PageManager::new (page_manager.rs)
PMNew(cache_size) ==
  [file_record |-> {},
   index_record |-> [i \in 0 .. (cache_size - 1) |-> NoPage],
   page_cache |-> [i \in 0 .. (cache_size - 1) |-> ZeroPage],
   lru |-> LruNew(cache_size),
   dirty |-> {}]

\* the buffer indices of a pool
CacheIdx(m) == DOMAIN m.page_cache

(***************************************************************************)
(* filesystem/file_manager.rs.  A file is the sequence of its pages; page  *)
(* p is element p + 1.                                                     *)
(***************************************************************************)
Zeros(n) == [i \in 1 .. n |-> ZeroPage]

\* fs_create_file: a new file of PAGE_NUM_ON_CREATE zero pages
FsCreateFile(d, f) ==
  [d EXCEPT ![f] = [exists |-> TRUE, pages |-> Zeros(PAGE_NUM_ON_CREATE)]]

\* fs_read_page_to: the page, or on a read past the end the file is set to
\* pagenum pages and the buffer zero filled
FsReadPageTo(d, f, pagenum) ==
  LET pages == d[f].pages
  IN  IF pagenum < Len(pages)
      THEN [disk |-> d, buf |-> pages[pagenum + 1]]
      ELSE [disk |-> [d EXCEPT ![f].pages = pages \o Zeros(pagenum - Len(pages))],
            buf |-> ZeroPage]

\* fs_write_page_from: seek to the page and write it; a gap reads as zeros
FsWritePageFrom(d, f, pagenum, buf) ==
  LET pages == d[f].pages
  IN  IF pagenum < Len(pages)
      THEN [d EXCEPT ![f].pages = [pages EXCEPT ![pagenum + 1] = buf]]
      ELSE [d EXCEPT ![f].pages =
              (pages \o Zeros(pagenum - Len(pages))) \o <<buf>>]

\* the bytes of a page as the file holds them
DiskPage(d, f, pagenum) ==
  IF pagenum < Len(d[f].pages) THEN d[f].pages[pagenum + 1] ELSE ZeroPage

(***************************************************************************)
(* filesystem/page_manager.rs.  The operators work on a record m that      *)
(* joins the page manager fields and the disk.                             *)
(***************************************************************************)
Join(p, d) == [file_record |-> p.file_record, index_record |-> p.index_record,
               page_cache |-> p.page_cache, lru |-> p.lru, dirty |-> p.dirty,
               disk |-> d]

Split(m) == [file_record |-> m.file_record, index_record |-> m.index_record,
             page_cache |-> m.page_cache, lru |-> m.lru, dirty |-> m.dirty]

\* a write_back that forgets the write
PMWriteBackLost(m, index, f, pagenum) ==
  [m EXCEPT !.dirty = @ \ {index}]

\* PageManager::write_back
PMWriteBack(m, index, f, pagenum) ==
  IF index \in m.dirty
  THEN [m EXCEPT !.disk = FsWritePageFrom(@, f, pagenum, m.page_cache[index]),
                 !.dirty = @ \ {index}]
  ELSE m

\* PageManager::get_page
PMGetPage(m, f, pagenum, dirty) ==
  LET hits == {i \in CacheIdx(m) : m.index_record[i] = <<f, pagenum>>}
      Done(mm, i) ==
        [ok |-> TRUE, idx |-> i,
         m |-> [mm EXCEPT !.lru = LruAccess(@, i),
                          !.dirty = IF dirty THEN @ \cup {i} ELSE @]]
  IN  IF hits # {}
      THEN Done(m, CHOOSE i \in hits : TRUE)
      ELSE
        LET ci == LruFindFurthest(m.lru)
            old == m.index_record[ci]
            m1 == [m EXCEPT !.index_record[ci] = <<f, pagenum>>]
        IN  IF old # NoPage /\ old[1] \notin m.file_record
            THEN [ok |-> FALSE, idx |-> ci, m |-> m1]
            ELSE
              LET m2 == IF old # NoPage
                        THEN PMWriteBack(m1, ci, old[1], old[2])
                        ELSE m1
              IN  IF f \notin m.file_record
                  THEN [ok |-> FALSE, idx |-> ci, m |-> m2]
                  ELSE
                    LET rd == FsReadPageTo(m2.disk, f, pagenum)
                    IN  Done([m2 EXCEPT !.disk = rd.disk,
                                        !.page_cache[ci] = rd.buf], ci)

\* PageManager::open_file
PMOpenFile(m, f) ==
  IF f \in m.file_record
  THEN [ok |-> FALSE, m |-> m]
  ELSE [ok |-> TRUE,
        m |-> [m EXCEPT !.file_record = @ \cup {f},
                        !.disk = IF @[f].exists THEN @ ELSE FsCreateFile(@, f)]]

RECURSIVE CloseLoop(_, _, _)
CloseLoop(m, f, idxs) ==
  IF idxs = {} THEN m
  ELSE LET i == CHOOSE i \in idxs : TRUE
           pagenum == m.index_record[i][2]
           m1 == [m EXCEPT !.index_record[i] = NoPage]
       IN  CloseLoop(PMWriteBack(m1, i, f, pagenum), f, idxs \ {i})

\* a close_file that drops the buffers of the file unwritten
PMCloseFileDrop(m, f) ==
  IF f \in m.file_record
  THEN [ok |-> TRUE,
        m |-> [m EXCEPT !.file_record = @ \ {f},
                 !.index_record =
                    [i \in CacheIdx(m) |->
                       IF @[i] # NoPage /\ @[i][1] = f THEN NoPage ELSE @[i]],
                 !.dirty = {i \in @ : m.index_record[i][1] # f}]]
  ELSE [ok |-> FALSE, m |-> m]

\* PageManager::close_file
PMCloseFile(m, f) ==
  IF f \in m.file_record
  THEN [ok |-> TRUE,
        m |-> CloseLoop([m EXCEPT !.file_record = @ \ {f}], f,
                {i \in CacheIdx(m) : m.index_record[i] # NoPage
                                    /\ m.index_record[i][1] = f})]
  ELSE [ok |-> FALSE, m |-> m]

RECURSIVE FlushLoop(_, _)
FlushLoop(m, idxs) ==
  IF idxs = {} THEN m
  ELSE LET i == CHOOSE i \in idxs : TRUE
           pi == m.index_record[i]
       IN  FlushLoop([m EXCEPT !.disk =
                        FsWritePageFrom(@, pi[1], pi[2], m.page_cache[i])],
                     idxs \ {i})

\* PageManager::flush_all.  The loop fails at the first buffer of a file
\* that is not open; the buffers visited before it (wr, any subset of the
\* others, the map's iteration order being arbitrary) have been written.
PMFlushAll(m, wr) ==
  LET mapped == {i \in CacheIdx(m) : m.index_record[i] # NoPage}
      bad == {i \in mapped : m.index_record[i][1] \notin m.file_record}
  IN  IF bad = {}
      THEN [ok |-> TRUE,
            m |-> [FlushLoop(m, mapped \cap m.dirty)
                     EXCEPT !.index_record = [i \in CacheIdx(m) |-> NoPage],
                            !.dirty = {}]]
      ELSE [ok |-> FALSE, m |-> FlushLoop(m, (wr \ bad) \cap m.dirty)]

\* read_page: the page the action sees
PMReadPage(m, f, pagenum) ==
  Let(PMGetPage(m, f, pagenum, FALSE), LAMBDA g :
    [ok |-> g.ok, m |-> g.m,
     page |-> IF g.ok THEN g.m.page_cache[g.idx] ELSE ZeroPage])

\* modify_page: the action Op changes the buffer in place
\* (page: the buffer as the action found it)
PMModifyPage(m, f, pagenum, Op(_)) ==
  Let(PMGetPage(m, f, pagenum, TRUE), LAMBDA g :
    [ok |-> g.ok,
     m |-> IF g.ok THEN [g.m EXCEPT !.page_cache[g.idx] = Op(@)] ELSE g.m,
     page |-> IF g.ok THEN g.m.page_cache[g.idx] ELSE ZeroPage])

(***************************************************************************)
(* utils/bitmap.rs and the page header (page.rs).                          *)
(***************************************************************************)
\* iter_bits: one bit per BYTE of the bitmap, so only bits 0 .. len-1 of a
\* bitmap of len bytes
IterBits(slot) == [i \in 1 .. SlotBytes |-> (i - 1) \in slot]

Take(seq, n) == SubSeq(seq, 1, Min(n, Len(seq)))

NoSlot == -1

\* FixedPageHeader::first_empty
first_empty(pg, max_slot) ==
  LET bits == Take(IterBits(pg.slot), max_slot)
      empty == {i \in 1 .. Len(bits) : ~bits[i]}
  IN  IF empty = {} THEN NoSlot
      ELSE (CHOOSE i \in empty : \A j \in empty : i <= j) - 1

\* FixedPageHeader::is_full
is_full(pg, max_slot) ==
  LET bits == Take(IterBits(pg.slot), max_slot)
  IN  \A i \in 1 .. Len(bits) : bits[i]

\* FixedPageHeader::clear
HeaderClear(pg) == [pg EXCEPT !.prev_page = 0, !.next_page = 0, !.slot = {}]

\* FixedPageHeader::clear_as_node
clear_as_node(pg, pagenum) ==
  [pg EXCEPT !.prev_page = pagenum, !.next_page = pagenum, !.slot = {}]

(***************************************************************************)
(* record/pagemanip.rs.                                                    *)
(***************************************************************************)
rid2pagenum(rid) == rid \div FixedMaxSlot

rid2slot(rid) == rid % FixedMaxSlot

entry2rid(pagenum, slot) == pagenum * FixedMaxSlot + slot

\* a PageIter::remove that links the neighbours to each other without
\* looking at the ends of the chain
PageIterRemoveNaive(m, f, pos) ==
  Let(PMModifyPage(m, f, pos,
        LAMBDA pg : [pg EXCEPT !.prev_page = pos, !.next_page = pos]),
      LAMBDA r1 :
  LET prev == r1.page.prev_page
      next == r1.page.next_page
  IN
  Let(PMModifyPage(r1.m, f, prev, LAMBDA pg : [pg EXCEPT !.next_page = next]).m,
      LAMBDA m2 :
  [m |-> PMModifyPage(m2, f, next, LAMBDA pg : [pg EXCEPT !.prev_page = prev]).m,
   pos |-> IF prev # pos THEN prev ELSE next]))

\* PageIter::remove: unlink page pos from its chain; the iterator moves to
\* prev, or to next when pos was the start
PageIterRemove(m, f, pos) ==
  Let(PMModifyPage(m, f, pos,
        LAMBDA pg : [pg EXCEPT !.prev_page = pos, !.next_page = pos]),
      LAMBDA r1 :
  LET prev == r1.page.prev_page
      next == r1.page.next_page
  IN
  Let(IF prev # pos
      THEN PMModifyPage(r1.m, f, prev,
             LAMBDA pg : [pg EXCEPT !.next_page =
                            IF next # pos THEN next ELSE prev]).m
      ELSE r1.m,
      LAMBDA m2 :
  [m |-> IF next # pos
         THEN PMModifyPage(m2, f, next,
                LAMBDA pg : [pg EXCEPT !.prev_page =
                               IF prev # pos THEN prev ELSE next]).m
         ELSE m2,
   pos |-> IF prev # pos THEN prev ELSE next]))

\* PageIter::append: link the chain that starts at start after page pos
PageIterAppend(m, f, pos, start) ==
  PMModifyPage(
    PMModifyPage(m, f, pos, LAMBDA pg : [pg EXCEPT !.next_page = start]).m,
    f, start, LAMBDA pg : [pg EXCEPT !.prev_page = pos]).m

(***************************************************************************)
(* record/table.rs: TableMeta.  Every column is an INT; a column is its    *)
(* set of constraint flags.  Column c is columns[c + 1].                   *)
(***************************************************************************)
NoneP == -1

\* TableMeta::new
TableMetaNew(id, name) ==
  [id |-> id, name |-> name, columns |-> <<>>,
   available_pages |-> NoneP, full_pages |-> NoneP,
   max_pagenum |-> 0, rest_slot |-> 0,
   foreign_key |-> {}, as_foreign_key |-> {},
   primary |-> <<>>, unique |-> {}, index_record |-> {}]

colnum(meta) == Len(meta.columns)

nullbit_size(meta) ==
  (colnum(meta) \div BitsPerByte)
    + (IF colnum(meta) % BitsPerByte # 0 THEN 1 ELSE 0)

slot_size(meta) == nullbit_size(meta) + colnum(meta) * IntSize

\* TableMeta::max_slot
max_slot(meta) == Min(DataSize \div slot_size(meta), FixedMaxSlot)

\* TableMeta::alloc_page
alloc_page(meta) ==
  [meta EXCEPT !.max_pagenum = @ + 1,
               !.rest_slot = (@ + max_slot(meta)) % RestSlotMod]

\* the data file of a table
DataPath(t) == t.meta.name

(***************************************************************************)
(* record/table.rs: Table.  A table t is its meta and its indices; the     *)
(* operators take the pool m and return the pool they leave.  The data     *)
(* file of a table object is open, so the pool calls inside cannot fail.   *)
(***************************************************************************)
\* Table::from_meta: open the data file and clear the header of page 0
TableFromMeta(m, meta) ==
  Let(PMOpenFile(m, meta.name), LAMBDA o :
    IF ~o.ok THEN [ok |-> FALSE, m |-> o.m]
    ELSE [ok |-> TRUE,
          m |-> PMModifyPage(o.m, meta.name, 0, HeaderClear).m,
          t |-> [meta |-> meta, indices |-> <<>>]])

\* a check_rid_exist that looks at the page number only
CheckRidInRange(m, t, rid) ==
  IF rid2pagenum(rid) >= t.meta.max_pagenum THEN [ok |-> FALSE, m |-> m]
  ELSE Let(PMReadPage(m, DataPath(t), rid2pagenum(rid)), LAMBDA r :
         [ok |-> TRUE, m |-> r.m])

\* Table::check_rid_exist
check_rid_exist(m, t, rid) ==
  IF rid2pagenum(rid) >= t.meta.max_pagenum THEN [ok |-> FALSE, m |-> m]
  ELSE Let(PMReadPage(m, DataPath(t), rid2pagenum(rid)), LAMBDA r :
         [ok |-> rid2slot(rid) \in r.page.slot, m |-> r.m])

\* Table::interpret_entry: NULL when the null bit of the column is set,
\* else the column bytes
interpret_entry(m, t, rid, col) ==
  Let(PMReadPage(m, DataPath(t), rid2pagenum(rid)), LAMBDA r :
    LET slot == r.page.data[rid2slot(rid)]
    IN  [m |-> r.m,
         val |-> IF col \in slot.nullbits THEN NULL ELSE slot.vals[col]])

\* Table::select
TableSelect(m, t, rid, col) ==
  Let(check_rid_exist(m, t, rid), LAMBDA c :
    IF ~c.ok THEN [ok |-> FALSE, m |-> c.m, val |-> NULL]
    ELSE Let(interpret_entry(c.m, t, rid, col), LAMBDA e :
           [ok |-> TRUE, m |-> e.m, val |-> e.val]))

RECURSIVE InterpretCols(_, _, _, _, _)
InterpretCols(m, t, rid, cols, acc) ==
  IF cols = <<>> THEN [m |-> m, row |-> acc]
  ELSE Let(interpret_entry(m, t, rid, Head(cols)), LAMBDA e :
         InterpretCols(e.m, t, rid, Tail(cols), Append(acc, e.val)))

\* Table::select_cols
TableSelectCols(m, t, rid, cols) ==
  Let(check_rid_exist(m, t, rid), LAMBDA c :
    IF ~c.ok THEN [ok |-> FALSE, m |-> c.m, row |-> <<>>]
    ELSE Let(InterpretCols(c.m, t, rid, cols, <<>>), LAMBDA e :
           [ok |-> TRUE, m |-> e.m, row |-> e.row]))

AllCols(meta) == [i \in 1 .. colnum(meta) |-> i - 1]

\* Table::select_row
TableSelectRow(m, t, rid) == TableSelectCols(m, t, rid, AllCols(t.meta))

RECURSIVE SortedSeq(_)
SortedSeq(S) ==
  IF S = {} THEN <<>>
  ELSE LET x == CHOOSE x \in S : \A y \in S : x <= y
       IN  <<x>> \o SortedSeq(S \ {x})

RECURSIVE RowsFrom(_, _, _, _)
RowsFrom(m, t, pagenum, acc) ==
  IF pagenum >= t.meta.max_pagenum THEN [m |-> m, rows |-> acc]
  ELSE Let(PMReadPage(m, DataPath(t), pagenum), LAMBDA r :
         LET bits == Take(IterBits(r.page.slot), max_slot(t.meta))
             found == {entry2rid(pagenum, i - 1) :
                         i \in {j \in 1 .. Len(bits) : bits[j]}}
         IN  RowsFrom(r.m, t, pagenum + 1, acc \o SortedSeq(found)))

\* Table::rows_by_brute: the set bits iter_bits shows of every page below
\* max_pagenum, in page and slot order
rows_by_brute(m, t) == RowsFrom(m, t, 0, <<>>)

\* the closure of Table::insert that writes the columns of a row into a slot
WriteSlot(slot, val) ==
  [nullbits |-> slot.nullbits \cup {c \in 0 .. (Len(val) - 1) : val[c + 1] = NULL},
   vals |-> [c \in DOMAIN slot.vals |->
               IF c < Len(val) /\ val[c + 1] # NULL THEN val[c + 1]
               ELSE slot.vals[c]]]

\* Table::insert.  checked: the build checks arithmetic overflow, so that
\* rest_slot -= 1 panics at 0 instead of wrapping.
TableInsert(m, t, val, checked) ==
  LET f == DataPath(t)
      fresh == t.meta.available_pages = NoneP
      meta1 == IF fresh
               THEN [alloc_page(t.meta) EXCEPT !.available_pages = t.meta.max_pagenum]
               ELSE t.meta
      pagenum == meta1.available_pages
      meta2 == [meta1 EXCEPT !.rest_slot = (@ - 1) % RestSlotMod]
      ms == max_slot(meta2)
  IN
  Let(IF fresh
      THEN PMModifyPage(m, f, pagenum, LAMBDA pg : clear_as_node(pg, pagenum)).m
      ELSE m,
      LAMBDA m1 :
  IF meta1.rest_slot = 0 /\ checked
  THEN [st |-> "panic", m |-> m1, t |-> [t EXCEPT !.meta = meta1], rid |-> 0]
  ELSE
  Let(PMModifyPage(m1, f, pagenum,
        LAMBDA pg :
          LET s == first_empty(pg, ms)
          IN  IF s = NoSlot THEN pg
              ELSE [pg EXCEPT !.slot = @ \cup {s},
                              !.data[s] = WriteSlot(@, val)]),
      LAMBDA r :
  LET slot == first_empty(r.page, ms)
      full == is_full([r.page EXCEPT !.slot = @ \cup {slot}], ms)
  IN
  IF slot = NoSlot
  THEN [st |-> "panic", m |-> r.m, t |-> [t EXCEPT !.meta = meta2], rid |-> 0]
  ELSE IF ~full
  THEN [st |-> "ok", m |-> r.m, t |-> [t EXCEPT !.meta = meta2],
        rid |-> entry2rid(pagenum, slot)]
  ELSE
  Let(PageIterRemove(r.m, f, pagenum), LAMBDA rm :
  LET meta3 == IF meta2.available_pages = pagenum
               THEN [meta2 EXCEPT !.available_pages =
                       IF rm.pos = pagenum THEN NoneP ELSE rm.pos]
               ELSE meta2
  IN  [st |-> "ok",
       m |-> IF meta3.full_pages # NoneP
             THEN PageIterAppend(rm.m, f, pagenum, meta3.full_pages)
             ELSE rm.m,
       t |-> [t EXCEPT !.meta = [meta3 EXCEPT !.full_pages = pagenum]],
       rid |-> entry2rid(pagenum, slot)])))

\* Table::delete
TableDelete(m, t, rid) ==
  LET f == DataPath(t)
      pagenum == rid2pagenum(rid)
  IN
  Let(PMModifyPage(m, f, pagenum,
        LAMBDA pg : [pg EXCEPT !.slot = @ \ {rid2slot(rid)}]),
      LAMBDA r :
  IF ~is_full(r.page, max_slot(t.meta))
  THEN [st |-> "ok", m |-> r.m, t |-> t]
  ELSE
  Let(PageIterRemove(r.m, f, pagenum), LAMBDA rm :
  LET meta1 == IF t.meta.full_pages = pagenum
               THEN [t.meta EXCEPT !.full_pages =
                       IF rm.pos = pagenum THEN NoneP ELSE rm.pos]
               ELSE t.meta
  IN  IF t.meta.full_pages = NoneP
      THEN [st |-> "panic", m |-> rm.m, t |-> t]
      ELSE [st |-> "ok",
            m |-> IF meta1.available_pages # NoneP
                  THEN PageIterAppend(rm.m, f, pagenum, meta1.available_pages)
                  ELSE rm.m,
            t |-> [t EXCEPT !.meta =
                     [meta1 EXCEPT !.available_pages = pagenum]]]))

\* Table::update: write the column bytes, or set the null bit for NULL
TableUpdate(m, t, rid, col, val) ==
  LET slot == rid2slot(rid)
  IN
  Let(PMModifyPage(m, DataPath(t), rid2pagenum(rid),
        LAMBDA pg :
          IF slot \notin pg.slot THEN pg
          ELSE IF val = NULL
          THEN [pg EXCEPT !.data[slot].nullbits = @ \cup {col}]
          ELSE [pg EXCEPT !.data[slot].vals[col] = val]),
      LAMBDA r : [ok |-> slot \in r.page.slot, m |-> r.m])

(***************************************************************************)
(* index/fast_cmp.rs and index/colindex.rs.  An index is the key sequence  *)
(* of its BTreeSet, which for the sizes reached is one leaf node; an entry *)
(* is an EntryRef (rid, fast_cmp, is_null) of the one indexed column.  A   *)
(* key is a Ref (an entry) or a Data (column values).  Comparisons read    *)
(* the table through the pool; held says that the table is mutably         *)
(* borrowed by the caller, in which case borrowing it again panics.        *)
(***************************************************************************)
Ok(m) == [st |-> "ok", m |-> m]

Paniced(m) == [st |-> "panic", m |-> m]

Ord(c, m) == [st |-> "ok", ord |-> c, m |-> m]

IntCmp(a, b) == IF a < b THEN -1 ELSE IF a > b THEN 1 ELSE 0

\* Option<ColumnVal>::partial_cmp: None before Some
OptCmp(l, r) ==
  IF l = NULL /\ r = NULL THEN 0
  ELSE IF l = NULL THEN -1
  ELSE IF r = NULL THEN 1
  ELSE IntCmp(l, r)

\* FastCmp::from_colval of an INT: the value
from_colval(colval) == colval

\* data2fastcmp, for the one column of a key: a NULL keeps the zeroed buffer
data2fastcmp(colval) ==
  IF colval = NULL THEN [fast_cmp |-> 0, is_null |-> TRUE]
  ELSE [fast_cmp |-> from_colval(colval), is_null |-> FALSE]

EntryRef(rid, colval) ==
  [rid |-> rid, fast_cmp |-> data2fastcmp(colval).fast_cmp,
   is_null |-> data2fastcmp(colval).is_null]

RefKey(e) == [kind |-> "Ref", ref |-> e]

DataKey(colval) == [kind |-> "Data", data |-> colval]

\* EntryRef::comp_at
comp_at(m, t, a, b, col, held) ==
  IF a.is_null /\ b.is_null THEN Ord(IntCmp(a.rid, b.rid), m)
  ELSE IF a.is_null THEN Ord(-1, m)
  ELSE IF b.is_null THEN Ord(1, m)
  ELSE IF a.fast_cmp # b.fast_cmp THEN Ord(IntCmp(a.fast_cmp, b.fast_cmp), m)
  ELSE IF held THEN Paniced(m)
  ELSE Let(TableSelect(m, t, a.rid, col), LAMBDA l :
         IF ~l.ok THEN Paniced(l.m)
         ELSE Let(TableSelect(l.m, t, b.rid, col), LAMBDA r :
                IF ~r.ok THEN Paniced(r.m)
                ELSE Ord(OptCmp(l.val, r.val), r.m)))

\* Ord for EntryRef
EntryCmp(m, t, a, b, col, held) ==
  Let(comp_at(m, t, a, b, col, held), LAMBDA c :
    IF c.st # "ok" \/ c.ord # 0 THEN c ELSE Ord(IntCmp(a.rid, b.rid), c.m))

\* EntryRef::comp_with_data_at
comp_with_data_at(m, t, e, colval, col, held) ==
  IF colval # NULL /\ e.is_null THEN Ord(-1, m)
  ELSE IF colval = NULL /\ ~e.is_null THEN Ord(1, m)
  ELSE IF colval = NULL THEN Ord(0, m)
  ELSE IF e.fast_cmp # from_colval(colval)
  THEN Ord(IntCmp(e.fast_cmp, from_colval(colval)), m)
  ELSE IF held THEN Paniced(m)
  ELSE Let(TableSelect(m, t, e.rid, col), LAMBDA l :
         IF ~l.ok \/ l.val = NULL THEN Paniced(l.m)
         ELSE Ord(IntCmp(l.val, colval), l.m))

\* Ord for IndexKey, key against an entry of the set
KeyCmp(m, t, key, e, col, held) ==
  IF key.kind = "Ref" THEN EntryCmp(m, t, key.ref, e, col, held)
  ELSE Let(comp_with_data_at(m, t, e, key.data, col, held), LAMBDA c :
         IF c.st # "ok" THEN c ELSE Ord(0 - c.ord, c.m))

\* the search of a leaf from position start: the first key not below key
RECURSIVE find_key_index(_, _, _, _, _, _, _)
find_key_index(m, t, list, key, start, col, held) ==
  IF start > Len(list) THEN [st |-> "ok", found |-> FALSE, idx |-> start, m |-> m]
  ELSE Let(KeyCmp(m, t, key, list[start], col, held), LAMBDA c :
         IF c.st # "ok" THEN [st |-> "panic", found |-> FALSE, idx |-> start, m |-> c.m]
         ELSE IF c.ord > 0
         THEN find_key_index(c.m, t, list, key, start + 1, col, held)
         ELSE [st |-> "ok", found |-> c.ord = 0, idx |-> start, m |-> c.m])

InsertAt(list, i, e) == SubSeq(list, 1, i - 1) \o <<e>> \o SubSeq(list, i, Len(list))

RemoveAt(list, i) == SubSeq(list, 1, i - 1) \o SubSeq(list, i + 1, Len(list))

\* ColIndex::insert_record: an equal key already in the set stays
insert_record(m, t, list, row_id, colval, col) ==
  Let(find_key_index(m, t, list, RefKey(EntryRef(row_id, colval)), 1, col, FALSE),
      LAMBDA f :
    [st |-> f.st, m |-> f.m,
     list |-> IF f.st = "ok" /\ ~f.found
              THEN InsertAt(list, f.idx, EntryRef(row_id, colval))
              ELSE list])

\* ColIndex::remove_record
remove_record(m, t, list, row_id, colval, col) ==
  Let(find_key_index(m, t, list, RefKey(EntryRef(row_id, colval)), 1, col, FALSE),
      LAMBDA f :
    [st |-> f.st, m |-> f.m,
     list |-> IF f.st = "ok" /\ f.found THEN RemoveAt(list, f.idx) ELSE list])

\* BTreeSet::contains of a Data key
IndexContains(m, t, list, colval, col, held) ==
  find_key_index(m, t, list, DataKey(colval), 1, col, held)

\* ColIndex::range_rows(key, key): the lower edge is where the search from
\* the start ends, the upper edge where the search from the lower edge ends
\* (one past it when that key is equal)
range_rows(m, t, list, colval, col, held) ==
  Let(find_key_index(m, t, list, DataKey(colval), 1, col, held), LAMBDA lo :
    IF lo.st # "ok" THEN [st |-> "panic", m |-> lo.m, rids |-> <<>>]
    ELSE Let(find_key_index(lo.m, t, list, DataKey(colval), lo.idx, col, held),
             LAMBDA hi :
           IF hi.st # "ok" THEN [st |-> "panic", m |-> hi.m, rids |-> <<>>]
           ELSE [st |-> "ok", m |-> hi.m,
                 rids |-> IF hi.found THEN <<list[hi.idx].rid>> ELSE <<>>]))

\* ColIndex::iter_rid
iter_rid(list) == [i \in 1 .. Len(list) |-> list[i].rid]

(***************************************************************************)
(* record/table.rs: the index and lookup operations of a Table.  With one  *)
(* column per table the only index key is the column list <<0>>, so a      *)
(* table has at most one index.                                            *)
(***************************************************************************)
\* Table::get_data_cols
get_data_cols(row, cols) == [i \in 1 .. Len(cols) |-> row[cols[i] + 1]]

\* Table::rows: through the first index when there is one, else by scan
TableRows(m, t) ==
  IF DOMAIN t.indices # {}
  THEN [m |-> m, rows |-> iter_rid(t.indices[CHOOSE k \in DOMAIN t.indices : TRUE])]
  ELSE rows_by_brute(m, t)

\* the scan of check_data_exist: stops at the first equal row
RECURSIVE ScanExist(_, _, _, _, _)
ScanExist(m, t, rids, row_data, cols) ==
  IF rids = <<>> THEN [st |-> "ok", found |-> FALSE, m |-> m]
  ELSE Let(TableSelectRow(m, t, Head(rids)), LAMBDA s :
         IF ~s.ok THEN [st |-> "panic", found |-> FALSE, m |-> s.m]
         ELSE IF get_data_cols(s.row, cols) = row_data
         THEN [st |-> "ok", found |-> TRUE, m |-> s.m]
         ELSE ScanExist(s.m, t, Tail(rids), row_data, cols))

\* Table::check_data_exist
check_data_exist(m, t, row_data, cols, held) ==
  IF cols \in DOMAIN t.indices
  THEN Let(IndexContains(m, t, t.indices[cols], row_data[1], cols[1], held),
           LAMBDA f : [st |-> f.st, found |-> f.found, m |-> f.m])
  ELSE Let(TableRows(m, t), LAMBDA r : ScanExist(r.m, t, r.rows, row_data, cols))

\* the scan of get_equal_rows and get_rows_by: every equal row
RECURSIVE ScanEqual(_, _, _, _, _, _)
ScanEqual(m, t, rids, cols_data, cols, acc) ==
  IF rids = <<>> THEN [st |-> "ok", rids |-> acc, m |-> m]
  ELSE Let(TableSelectRow(m, t, Head(rids)), LAMBDA s :
         IF ~s.ok THEN [st |-> "panic", rids |-> acc, m |-> s.m]
         ELSE ScanEqual(s.m, t, Tail(rids), cols_data, cols,
                IF get_data_cols(s.row, cols) = cols_data
                THEN acc \cup {Head(rids)} ELSE acc))

\* Table::get_equal_rows, and Table::filter_rows with CompareOp::EQ
get_equal_rows(m, t, cols_data, cols, held) ==
  IF cols \in DOMAIN t.indices
  THEN Let(range_rows(m, t, t.indices[cols], cols_data[1], cols[1], held),
           LAMBDA r : [st |-> r.st, m |-> r.m,
                       rids |-> {r.rids[i] : i \in 1 .. Len(r.rids)}])
  ELSE Let(TableRows(m, t), LAMBDA r :
         ScanEqual(r.m, t, r.rows, cols_data, cols, {}))

\* Table::remove_index_at
remove_index_at(m, t, row_id, row_data) ==
  IF DOMAIN t.indices = {} THEN [st |-> "ok", m |-> m, t |-> t]
  ELSE LET cols == CHOOSE k \in DOMAIN t.indices : TRUE
       IN  Let(remove_record(m, t, t.indices[cols], row_id,
                             row_data[cols[1] + 1], cols[1]),
               LAMBDA r : [st |-> r.st, m |-> r.m,
                           t |-> [t EXCEPT !.indices[cols] = r.list]])

\* Table::insert_index_at
insert_index_at(m, t, row_id, row_data) ==
  IF DOMAIN t.indices = {} THEN [st |-> "ok", m |-> m, t |-> t]
  ELSE LET cols == CHOOSE k \in DOMAIN t.indices : TRUE
       IN  Let(insert_record(m, t, t.indices[cols], row_id,
                             row_data[cols[1] + 1], cols[1]),
               LAMBDA r : [st |-> r.st, m |-> r.m,
                           t |-> [t EXCEPT !.indices[cols] = r.list]])

RECURSIVE BuildIndex(_, _, _, _, _)
BuildIndex(m, t, rids, cols, list) ==
  IF rids = <<>> THEN [st |-> "ok", m |-> m, list |-> list]
  ELSE Let(TableSelectCols(m, t, Head(rids), cols), LAMBDA s :
         IF ~s.ok THEN [st |-> "err", m |-> s.m, list |-> list]
         ELSE Let(insert_record(s.m, t, list, Head(rids), s.row[1], cols[1]),
                  LAMBDA r :
                IF r.st # "ok" THEN r
                ELSE BuildIndex(r.m, t, Tail(rids), cols, r.list)))

\* Table::create_index: an entry for every rid rows() yields
create_index(m, t, cols) ==
  Let(TableRows(m, t), LAMBDA r : BuildIndex(r.m, t, r.rows, cols, <<>>))

(***************************************************************************)
(* dbms/database.rs.  The operators work on a context c: the pool with the *)
(* disk (m), the DATABASE static (db) and the catalog files (files).  A    *)
(* result carries st: "ok", "err" (the statement returned Err) or "panic". *)
(***************************************************************************)
Ctx(m, d, fl) == [m |-> m, db |-> d, files |-> fl]

Res(st, c) == [st |-> st, c |-> c]

SetM(c, m) == [c EXCEPT !.m = m]

Tbl(c, id) == c.db.current_tables[id]

SetTable(c, id, t) == [c EXCEPT !.db.current_tables[id] = t]

\* Database::check_loaded
check_loaded(c, id) == id \in DOMAIN c.db.current_tables

\* Database::load_table with Table::load_no_index: the stored meta, the data
\* file opened, and the indices of meta.index_record (which no statement
\* ever fills: Table::insert_index has no caller).  The callers expect() it.
DbLoadTable(c, id) ==
  LET names == {n \in DOMAIN c.db.id_record : c.db.id_record[n] = id}
      name == CHOOSE n \in names : TRUE
  IN  IF c.db.current = "" \/ names = {} THEN Res("panic", c)
      ELSE IF name \notin DOMAIN c.files.metadata THEN Res("panic", c)
      ELSE Let(PMOpenFile(c.m, name), LAMBDA o :
             IF ~o.ok THEN Res("panic", SetM(c, o.m))
             ELSE Res("ok",
                    [c EXCEPT !.m = o.m,
                              !.db.current_tables =
                                 Put(@, c.files.metadata[name].id,
                                     [meta |-> c.files.metadata[name],
                                      indices |-> <<>>])]))

\* ensure_table up to the action: load the table when it is not loaded.
\* nested: called inside the action of another accessor, which holds
\* current_tables borrowed, so that the borrow_mut of the load panics.
\* The table is then looked up under id and unwrapped, while the load files
\* it under the id of its meta.
ensure_table(c, id, nested) ==
  IF check_loaded(c, id) THEN Res("ok", c)
  ELSE IF nested THEN Res("panic", c)
  ELSE Let(DbLoadTable(c, id), LAMBDA l :
         IF l.st = "ok" /\ ~check_loaded(l.c, id) THEN Res("panic", l.c) ELSE l)

\* get_table and modify_table up to the action: unwrap() of the loaded table
get_table(c, id) == IF check_loaded(c, id) THEN Res("ok", c) ELSE Res("panic", c)

\* load_table(name)
load_table(c, name) ==
  IF name \notin DOMAIN c.db.id_record THEN Res("err", c)
  ELSE IF check_loaded(c, c.db.id_record[name]) THEN Res("ok", c)
  ELSE DbLoadTable(c, c.db.id_record[name])

\* load_table(name) and the ensure_table that follows it in exec::update,
\* exec::delete and exec::create_index
load_ensure(c, name) ==
  Let(load_table(c, name), LAMBDA l :
    IF l.st # "ok" THEN l
    ELSE ensure_table(l.c, l.c.db.id_record[name], FALSE))

(***************************************************************************)
(* dbms/exec.rs: INSERT of one record.                                     *)
(***************************************************************************)
\* Table::check_column_type of a NULL literal, and Table::check_type_insert
check_column_type(meta, val, col) ==
  ~(val = NULL /\ meta.columns[col + 1] \cap {"NOT_NULL", "PRIMARY_KEY"} # {})

check_type_insert(meta, record) ==
  /\ Len(record) = colnum(meta)
  /\ \A i \in 1 .. Len(record) : check_column_type(meta, record[i], i - 1)
  /\ \/ meta.primary = <<>>
     \/ \E i \in 1 .. Len(meta.primary) : record[meta.primary[i] + 1] # NULL

\* the loop over meta.unique: Err when the projection exists.  only: the
\* sets that contain this column (NULL: every set)
RECURSIVE UniqueLoop(_, _, _, _, _)
UniqueLoop(c, id, data, sets, only) ==
  IF sets = {} THEN Res("ok", c)
  ELSE LET cols == CHOOSE u \in sets : TRUE
       IN  IF only # NULL /\ \A i \in 1 .. Len(cols) : cols[i] # only
           THEN UniqueLoop(c, id, data, sets \ {cols}, only)
           ELSE Let(check_data_exist(c.m, Tbl(c, id), get_data_cols(data, cols),
                                     cols, FALSE),
                    LAMBDA e :
                  IF e.st # "ok" THEN Res("panic", SetM(c, e.m))
                  ELSE IF e.found THEN Res("err", SetM(c, e.m))
                  ELSE UniqueLoop(SetM(c, e.m), id, data, sets \ {cols}, only))

\* the loop over meta.foreign_key: Err when the projection is not in the
\* referenced table
RECURSIVE ForeignLoop(_, _, _, _)
ForeignLoop(c, data, fks, only) ==
  IF fks = {} THEN Res("ok", c)
  ELSE LET fk == CHOOSE k \in fks : TRUE
       IN  IF only # NULL /\ \A i \in 1 .. Len(fk.cols) : fk.cols[i] # only
           THEN ForeignLoop(c, data, fks \ {fk}, only)
           ELSE Let(ensure_table(c, fk.ftable, TRUE), LAMBDA l :
                  IF l.st # "ok" THEN l
                  ELSE Let(check_data_exist(l.c.m, Tbl(l.c, fk.ftable),
                             get_data_cols(data, fk.cols), fk.fcols, FALSE),
                           LAMBDA e :
                         IF e.st # "ok" THEN Res("panic", SetM(l.c, e.m))
                         ELSE IF ~e.found THEN Res("err", SetM(l.c, e.m))
                         ELSE ForeignLoop(SetM(l.c, e.m), data, fks \ {fk}, only)))

\* exec::insert
exec_insert(c, name, record, checked) ==
  IF name \notin DOMAIN c.db.id_record THEN Res("err", c)
  ELSE
  LET id == c.db.id_record[name]
  IN
  Let(ensure_table(c, id, FALSE), LAMBDA l :
  IF l.st # "ok" THEN l
  ELSE IF ~check_type_insert(Tbl(l.c, id).meta, record) THEN Res("err", l.c)
  ELSE
  Let(UniqueLoop(l.c, id, record, Tbl(l.c, id).meta.unique, NULL), LAMBDA u :
  IF u.st # "ok" THEN u
  ELSE
  Let(ForeignLoop(u.c, record, Tbl(u.c, id).meta.foreign_key, NULL), LAMBDA k :
  IF k.st # "ok" THEN k
  ELSE
  Let(TableInsert(k.c.m, Tbl(k.c, id), record, checked), LAMBDA i :
  IF i.st # "ok" THEN Res("panic", k.c)
  ELSE
  Let(insert_index_at(i.m, i.t, i.rid, record), LAMBDA x :
    Res(x.st, SetTable(SetM(k.c, x.m), id, x.t)))))))

(***************************************************************************)
(* dbms/relation.rs and dbms/exec.rs: UPDATE and DELETE.  A WHERE clause   *)
(* is <<>> (CondExpr::True) or <<v>> (the term column 0 = v).  The         *)
(* rows of a statement come out of a HashSet; perm, a sequence of all      *)
(* rids, is the order its iteration happens to have.                       *)
(***************************************************************************)
OrderBy(S, perm) ==
  SelectSeq(perm, LAMBDA x : x \in S)
    \o SortedSeq(S \ {perm[i] : i \in 1 .. Len(perm)})

\* relation(), with the rows() of exec::update and exec::delete for True
Relation(c, id, cond) ==
  IF cond = <<>>
  THEN Let(TableRows(c.m, Tbl(c, id)), LAMBDA r :
         [st |-> "ok", m |-> r.m, rids |-> {r.rows[i] : i \in 1 .. Len(r.rows)}])
  ELSE get_equal_rows(c.m, Tbl(c, id), cond, <<0>>, FALSE)

\* the loop over as_foreign_key of exec::update: the rows of the
\* referencing tables equal to the old projection, as (table, row, column)
RECURSIVE GatherLoop(_, _, _, _, _)
GatherLoop(c, row_data, col, refs, acc) ==
  IF refs = {} THEN [st |-> "ok", c |-> c, fu |-> acc]
  ELSE LET ref == CHOOSE k \in refs : TRUE
       IN  IF \A i \in 1 .. Len(ref.fcols) : ref.fcols[i] # col
           THEN GatherLoop(c, row_data, col, refs \ {ref}, acc)
           ELSE Let(ensure_table(c, ref.ref, TRUE), LAMBDA l :
                  IF l.st # "ok" THEN [st |-> "panic", c |-> l.c, fu |-> acc]
                  ELSE Let(get_equal_rows(l.c.m, Tbl(l.c, ref.ref),
                             get_data_cols(row_data, ref.fcols), ref.cols, FALSE),
                           LAMBDA e :
                         IF e.st # "ok"
                         THEN [st |-> "panic", c |-> SetM(l.c, e.m), fu |-> acc]
                         ELSE GatherLoop(SetM(l.c, e.m), row_data, col,
                                refs \ {ref},
                                acc \cup {[ref |-> ref.ref, row |-> r,
                                           col |-> ref.cols[
                                             CHOOSE i \in 1 .. Len(ref.fcols) :
                                               ref.fcols[i] = col]] :
                                          r \in e.rids})))

\* the three accesses that end an iteration of the row loop of exec::update
UpdateOne(c, id, row, col, val, row_data) ==
  Let(remove_index_at(c.m, Tbl(c, id), row, row_data), LAMBDA x :
  IF x.st # "ok" THEN Res("panic", SetM(c, x.m))
  ELSE
  Let(TableUpdate(x.m, x.t, row, col, val), LAMBDA w :
  IF ~w.ok THEN Res("err", SetTable(SetM(c, w.m), id, x.t))
  ELSE
  Let(insert_index_at(w.m, x.t, row, [row_data EXCEPT ![col + 1] = val]),
      LAMBDA y : Res(y.st, SetTable(SetM(c, y.m), id, y.t)))))

\* the row loop of exec::update.  foreign_update is emptied for every
\* referencing table at every row, so fu is what the last row gathered.
RECURSIVE UpdateRows(_, _, _, _, _, _)
UpdateRows(c, id, rows, col, val, fu) ==
  IF rows = <<>> THEN [st |-> "ok", c |-> c, fu |-> fu]
  ELSE
  Let(TableSelectRow(c.m, Tbl(c, id), Head(rows)), LAMBDA s :
  IF ~s.ok THEN [st |-> "err", c |-> SetM(c, s.m), fu |-> fu]
  ELSE
  Let(UniqueLoop(SetM(c, s.m), id, [s.row EXCEPT ![col + 1] = val],
                 Tbl(c, id).meta.unique, col),
      LAMBDA u :
  IF u.st # "ok" THEN [st |-> u.st, c |-> u.c, fu |-> fu]
  ELSE
  Let(ForeignLoop(u.c, [s.row EXCEPT ![col + 1] = val],
                  Tbl(c, id).meta.foreign_key, col),
      LAMBDA k :
  IF k.st # "ok" THEN [st |-> k.st, c |-> k.c, fu |-> fu]
  ELSE
  Let(GatherLoop(k.c, s.row, col, Tbl(c, id).meta.as_foreign_key, {}),
      LAMBDA g :
  IF g.st # "ok" THEN g
  ELSE
  Let(UpdateOne(g.c, id, Head(rows), col, val, s.row), LAMBDA o :
  IF o.st # "ok" THEN [st |-> o.st, c |-> o.c, fu |-> g.fu]
  ELSE UpdateRows(o.c, id, Tail(rows), col, val, g.fu))))))

\* the loop over foreign_update that ends exec::update
RECURSIVE CascadeUpdate(_, _, _, _)
CascadeUpdate(c, fu, val, perm) ==
  IF fu = {} THEN Res("ok", c)
  ELSE LET first == Head(OrderBy({x.row : x \in fu}, perm))
           a == CHOOSE x \in fu : x.row = first
       IN  IF ~check_loaded(c, a.ref) THEN Res("panic", c)
           ELSE Let(TableUpdate(c.m, Tbl(c, a.ref), a.row, a.col, val),
                    LAMBDA w :
                  IF ~w.ok THEN Res("err", SetM(c, w.m))
                  ELSE CascadeUpdate(SetM(c, w.m), fu \ {a}, val, perm))

\* exec::update of column col
exec_update_col(c, name, cond, col, val, perm) ==
  IF name \notin DOMAIN c.db.id_record THEN Res("err", c)
  ELSE
  LET id == c.db.id_record[name]
  IN
  Let(load_ensure(c, name), LAMBDA l :
  IF l.st # "ok" THEN l
  ELSE
  Let(Relation(l.c, id, cond), LAMBDA r :
  IF r.st # "ok" THEN Res("panic", SetM(l.c, r.m))
  ELSE IF ~check_column_type(Tbl(l.c, id).meta, val, col)
  THEN Res("err", SetM(l.c, r.m))
  ELSE
  Let(UpdateRows(SetM(l.c, r.m), id, OrderBy(r.rids, perm), col, val, {}),
      LAMBDA w :
  IF w.st # "ok" THEN Res(w.st, w.c)
  ELSE CascadeUpdate(w.c, w.fu, val, perm))))

\* exec::update of column 0
exec_update(c, name, cond, val, perm) ==
  exec_update_col(c, name, cond, 0, val, perm)

\* the first loop of exec::delete: the index entries of all rows go
RECURSIVE RemoveIndexLoop(_, _, _)
RemoveIndexLoop(c, id, rows) ==
  IF rows = <<>> THEN Res("ok", c)
  ELSE Let(TableSelectRow(c.m, Tbl(c, id), Head(rows)), LAMBDA s :
         IF ~s.ok THEN Res("err", SetM(c, s.m))
         ELSE Let(remove_index_at(s.m, Tbl(c, id), Head(rows), s.row),
                  LAMBDA x :
                IF x.st # "ok" THEN Res("panic", SetM(c, x.m))
                ELSE RemoveIndexLoop(SetTable(SetM(c, x.m), id, x.t), id,
                                     Tail(rows))))

\* ensure_table of every referencing table
RECURSIVE EnsureLoop(_, _)
EnsureLoop(c, ids) ==
  IF ids = {} THEN Res("ok", c)
  ELSE LET i == CHOOSE x \in ids : TRUE
       IN  Let(ensure_table(c, i, FALSE), LAMBDA l :
             IF l.st # "ok" THEN l ELSE EnsureLoop(l.c, ids \ {i}))

\* Table::delete of every rid of a set
RECURSIVE DeleteRids(_, _, _)
DeleteRids(m, t, rids) ==
  IF rids = <<>> THEN [st |-> "ok", m |-> m, t |-> t]
  ELSE Let(TableDelete(m, t, Head(rids)), LAMBDA d :
         IF d.st # "ok" THEN d ELSE DeleteRids(d.m, d.t, Tail(rids)))

\* the cascade of one deleted row: inside modify_table of the referencing
\* table, which is therefore mutably borrowed while its index is searched;
\* id is the table of the statement, mutably borrowed as well
RECURSIVE CascadeDelete(_, _, _, _, _)
CascadeDelete(c, id, row_data, refs, perm) ==
  IF refs = {} THEN Res("ok", c)
  ELSE LET ref == CHOOSE k \in refs : TRUE
       IN  IF ref.ref = id \/ ~check_loaded(c, ref.ref) THEN Res("panic", c)
           ELSE Let(get_equal_rows(c.m, Tbl(c, ref.ref),
                      get_data_cols(row_data, ref.fcols), ref.cols, TRUE),
                    LAMBDA e :
                  IF e.st # "ok" THEN Res("panic", SetM(c, e.m))
                  ELSE Let(DeleteRids(e.m, Tbl(c, ref.ref),
                                      OrderBy(e.rids, perm)),
                           LAMBDA d :
                         IF d.st # "ok" THEN Res("panic", SetM(c, d.m))
                         ELSE CascadeDelete(
                                SetTable(SetM(c, d.m), ref.ref, d.t),
                                id, row_data, refs \ {ref}, perm)))

\* the second loop of exec::delete
RECURSIVE DeleteRows(_, _, _, _)
DeleteRows(c, id, rows, perm) ==
  IF rows = <<>> THEN Res("ok", c)
  ELSE
  Let(TableSelectRow(c.m, Tbl(c, id), Head(rows)), LAMBDA s :
  IF ~s.ok THEN Res("err", SetM(c, s.m))
  ELSE
  Let(CascadeDelete(SetM(c, s.m), id, s.row, Tbl(c, id).meta.as_foreign_key,
                    perm),
      LAMBDA k :
  IF k.st # "ok" THEN k
  ELSE
  Let(TableDelete(k.c.m, Tbl(k.c, id), Head(rows)), LAMBDA d :
  IF d.st # "ok" THEN Res("panic", SetM(k.c, d.m))
  ELSE DeleteRows(SetTable(SetM(k.c, d.m), id, d.t), id, Tail(rows), perm))))

\* exec::delete
exec_delete(c, name, cond, perm) ==
  IF name \notin DOMAIN c.db.id_record THEN Res("err", c)
  ELSE
  LET id == c.db.id_record[name]
  IN
  Let(load_ensure(c, name), LAMBDA l :
  IF l.st # "ok" THEN l
  ELSE
  Let(Relation(l.c, id, cond), LAMBDA r :
  IF r.st # "ok" THEN Res("panic", SetM(l.c, r.m))
  ELSE
  Let(RemoveIndexLoop(SetM(l.c, r.m), id, OrderBy(r.rids, perm)), LAMBDA x :
  IF x.st # "ok" THEN x
  ELSE
  Let(EnsureLoop(x.c, {k.ref : k \in Tbl(x.c, id).meta.as_foreign_key}),
      LAMBDA e :
  IF e.st # "ok" THEN e
  ELSE DeleteRows(e.c, id, OrderBy(r.rids, perm), perm)))))

(***************************************************************************)
(* dbms/database.rs and dbms/exec.rs: CREATE TABLE of one INT column,      *)
(* optionally UNIQUE and optionally a FOREIGN KEY to column 0 of the table *)
(* fk (NoFk: none), CREATE INDEX on column 0, USE and the write back.      *)
(***************************************************************************)
NoFk == ""

\* the smallest id id_record does not hold (Database::new_table)
FreeId(d) ==
  CHOOSE i \in 0 .. Cardinality(DOMAIN d.id_record) :
    /\ \A n \in DOMAIN d.id_record : d.id_record[n] # i
    /\ \A j \in 0 .. (i - 1) : \E n \in DOMAIN d.id_record : d.id_record[n] = j

\* the meta the init closure of create_table builds
NewMeta(id, name, unique) ==
  LET meta == [TableMetaNew(id, name) EXCEPT
                 !.columns = <<IF unique THEN {"UNIQUE"} ELSE {}>>,
                 !.unique = IF unique THEN {<<0>>} ELSE {}]
  IN  [meta EXCEPT !.rest_slot = max_slot(meta) * PAGE_NUM_ON_CREATE]

\* Database::new_table, meta: what its init closure makes of TableMeta::new
NewTableWith(c, name, meta) ==
  IF c.db.current = "" \/ name \in DOMAIN c.db.id_record THEN Res("err", c)
  ELSE Let(TableFromMeta(c.m, meta), LAMBDA f :
         IF ~f.ok THEN Res("err", SetM(c, f.m))
         ELSE Res("ok",
                [c EXCEPT !.m = f.m,
                          !.db.id_record = Put(@, name, FreeId(c.db)),
                          !.db.current_tables = Put(@, FreeId(c.db), f.t)]))

new_table(c, name, unique) ==
  NewTableWith(c, name, NewMeta(FreeId(c.db), name, unique))

\* the closure create_table runs for a FOREIGN KEY: the referenced table
\* gets the flag, the column set in its unique set and the inverse entry,
\* the new table the flag and the foreign key
foreign(c, id, fk) ==
  IF fk \notin DOMAIN c.db.id_record THEN Res("err", c)
  ELSE LET ftable_id == c.db.id_record[fk]
       IN  IF ~check_loaded(c, ftable_id) THEN Res("panic", c)
           ELSE Res("ok",
             [c EXCEPT
                !.db.current_tables =
                   [[@ EXCEPT
                       ![ftable_id].meta.columns[1] = @ \cup {"AS_FOREIGN_KEY"},
                       ![ftable_id].meta.unique = @ \cup {<<0>>},
                       ![ftable_id].meta.as_foreign_key =
                          @ \cup {[fcols |-> <<0>>, ref |-> id, cols |-> <<0>>]}]
                    EXCEPT
                       ![id].meta.columns[1] = @ \cup {"FOREIGN_KEY"},
                       ![id].meta.foreign_key =
                          {k \in @ : k.cols # <<0>>}
                            \cup {[cols |-> <<0>>, ftable |-> ftable_id,
                                   fcols |-> <<0>>]}]])

\* database::create_table
create_table(c, name, unique, fk) ==
  Let(new_table(c, name, unique), LAMBDA n :
    IF n.st # "ok" \/ fk = NoFk THEN n
    ELSE foreign(n.c, n.c.db.id_record[name], fk))

\* exec::create_index
exec_create_index(c, name) ==
  Let(load_ensure(c, name), LAMBDA l :
  IF l.st # "ok" THEN l
  ELSE
  Let(create_index(l.c.m, Tbl(l.c, l.c.db.id_record[name]), <<0>>), LAMBDA x :
  IF x.st # "ok" THEN Res(x.st, SetM(l.c, x.m))
  ELSE Res("ok", [l.c EXCEPT
                    !.m = x.m,
                    !.db.current_tables[l.c.db.id_record[name]].indices =
                       Put(@, <<0>>, x.list)])))

\* a Table::write_back that leaves the stored meta as it was
TableWriteBackStale(c, t, wr) ==
  Let(PMFlushAll(c.m, wr), LAMBDA f :
    IF ~f.ok THEN Res("err", SetM(c, f.m))
    ELSE Let(PMCloseFile(f.m, DataPath(t)), LAMBDA x :
           Res(IF x.ok THEN "ok" ELSE "err", SetM(c, x.m))))

\* Table::write_back: store the meta, flush the pool, close the data file
\* (the indices are stored in files nothing reads back)
TableWriteBack(c, t, wr) ==
  Let(PMFlushAll(c.m, wr), LAMBDA f :
    IF ~f.ok
    THEN Res("err", [c EXCEPT !.m = f.m,
                              !.files.metadata = Put(@, t.meta.name, t.meta)])
    ELSE Let(PMCloseFile(f.m, DataPath(t)), LAMBDA x :
           Res(IF x.ok THEN "ok" ELSE "err",
               [c EXCEPT !.m = x.m,
                         !.files.metadata = Put(@, t.meta.name, t.meta)])))

RECURSIVE WriteBackLoop(_, _, _)
WriteBackLoop(c, ids, wr) ==
  IF ids = {} THEN Res("ok", c)
  ELSE LET i == CHOOSE x \in ids : TRUE
       IN  Let(TableWriteBack(c, Tbl(c, i), wr), LAMBDA w :
             IF w.st # "ok" THEN w
             ELSE WriteBackLoop([w.c EXCEPT !.db.current_tables = Drop(@, i)],
                                ids \ {i}, wr))

\* Database::write_back: store id_record, write back every loaded table
DatabaseWriteBack(c, wr) ==
  IF c.db.current = "" THEN Res("ok", c)
  ELSE Let(WriteBackLoop([c EXCEPT !.files.tablemeta = c.db.id_record],
                         DOMAIN c.db.current_tables, wr),
           LAMBDA w :
         IF w.st # "ok" THEN [w EXCEPT !.c.db.current_tables = <<>>]
         ELSE Res("ok", [w.c EXCEPT !.db.current = "",
                                    !.db.current_tables = <<>>]))

\* Database::change_database: the catalog of the directory is loaded first,
\* then the catalog in use is written back (expect()), then replaced
change_database(c, wr) ==
  Let(DatabaseWriteBack(c, wr), LAMBDA w :
    IF w.st # "ok" THEN Res("panic", w.c)
    ELSE Res("ok", [w.c EXCEPT !.db = [current |-> "d",
                                       id_record |-> c.files.tablemeta,
                                       current_tables |-> <<>>]]))

\* init::write_back, the way main returns
write_back(c, wr) ==
  Let(DatabaseWriteBack(c, wr), LAMBDA w :
    IF w.st # "ok" THEN w
    ELSE Let(PMFlushAll(w.c.m, wr), LAMBDA f :
           Res(IF f.ok THEN "ok" ELSE "err", SetM(w.c, f.m))))

(***************************************************************************)
(* SpecPool: the page manager driven as filesystem/tests.rs drives it.     *)
(* Pages are written whole with a pattern; reads and writes address open   *)
(* files.                                                                  *)
(***************************************************************************)
PoolFiles == {"t0", "t1"}
\* the pages addressed: two of the first file, one of every other
PoolPages(f) == IF f = "t0" THEN 0 .. 1 ELSE 0 .. 0
Patterns == 1 .. MaxPattern

Ret(op, ok, file, page, val, miss, wb) ==
  [op |-> op, ok |-> ok, file |-> file, page |-> page, val |-> val,
   miss |-> miss, wb |-> wb]

\* the operation finds the page in no buffer
Miss(f, pagenum) == \A i \in CacheIdx(pm) : pm.index_record[i] # <<f, pagenum>>

\* the buffer a miss takes holds a dirty page
DirtyVictim ==
  LET ci == LruFindFurthest(pm.lru)
  IN  pm.index_record[ci] # NoPage /\ ci \in pm.dirty

InitPool ==
  /\ pm = PMNew(PoolSize)
  /\ disk = [f \in Names |-> NoFile]
  /\ ret = Ret("init", TRUE, "", 0, ZeroPage, FALSE, FALSE)
  /\ expect = [f \in PoolFiles |-> [p \in PoolPages(f) |-> ZeroPage]]
  /\ db = DatabaseNew
  /\ files = NoFiles

OpenFile(f) ==
  LET r == PMOpenFile(Join(pm, disk), f)
  IN  /\ pm' = Split(r.m)
      /\ disk' = r.m.disk
      /\ ret' = Ret("open_file", r.ok, "", 0, ZeroPage, FALSE, FALSE)
      /\ UNCHANGED <<expect, db, files>>

CloseFile(f) ==
  LET r == PMCloseFile(Join(pm, disk), f)
  IN  /\ pm' = Split(r.m)
      /\ disk' = r.m.disk
      /\ ret' = Ret("close_file", r.ok, f, 0, ZeroPage, FALSE,
                    \E i \in pm.dirty : pm.index_record[i][1] = f)
      /\ UNCHANGED <<expect, db, files>>

ReadPage(f, pagenum) ==
  /\ f \in pm.file_record
  /\ \E r \in {PMReadPage(Join(pm, disk), f, pagenum)} :
         /\ pm' = Split(r.m)
         /\ disk' = r.m.disk
         /\ ret' = Ret("read_page", r.ok, f, pagenum, r.page,
                       Miss(f, pagenum), Miss(f, pagenum) /\ DirtyVictim)
         /\ UNCHANGED <<expect, db, files>>

ModifyPage(f, pagenum, v) ==
  /\ f \in pm.file_record
  /\ \E r \in {PMModifyPage(Join(pm, disk), f, pagenum, LAMBDA pg : FillPage(v))} :
         /\ pm' = Split(r.m)
         /\ disk' = r.m.disk
         /\ ret' = Ret("modify_page", r.ok, "", 0, ZeroPage, FALSE, FALSE)
         /\ expect' = IF r.ok THEN [expect EXCEPT ![f][pagenum] = FillPage(v)]
                      ELSE expect
         /\ UNCHANGED <<db, files>>

FlushAll ==
  \E wr \in IF \A i \in CacheIdx(pm) : pm.index_record[i] = NoPage
                    \/ pm.index_record[i][1] \in pm.file_record
             THEN {{}} ELSE SUBSET CacheIdx(pm) :
    LET r == PMFlushAll(Join(pm, disk), wr)
    IN  /\ pm' = Split(r.m)
        /\ disk' = r.m.disk
        /\ ret' = Ret("flush_all", r.ok, "", 0, ZeroPage, FALSE, pm.dirty # {})
        /\ UNCHANGED <<expect, db, files>>

NextPool ==
  \/ \E f \in PoolFiles : OpenFile(f)
  \/ \E f \in PoolFiles : CloseFile(f)
  \/ \E f \in PoolFiles : \E p \in PoolPages(f) : ReadPage(f, p)
  \/ \E f \in PoolFiles : \E p \in PoolPages(f), v \in Patterns :
        ModifyPage(f, p, v)
  \/ FlushAll

SpecPool == InitPool /\ [][NextPool]_vars

\* what read_page would return now for a page of an open file
ReadView(f, pagenum) == PMReadPage(Join(pm, disk), f, pagenum).page

\* what open_file followed by read_page would return for a closed file
ReopenView(f, pagenum) ==
  PMReadPage(PMOpenFile(Join(pm, disk), f).m, f, pagenum).page

NoBufferOf(f) ==
  \A i \in CacheIdx(pm) : pm.index_record[i] = NoPage \/ pm.index_record[i][1] # f

OnDisk(f) == \A p \in PoolPages(f) : DiskPage(disk, f, p) = expect[f][p]

Vals == 1 .. MaxVal

NullVals == Vals \cup {NULL}

Alive == ret.op # "panic"

Panic == [op |-> "panic"]

\* the meta create_table builds for n unconstrained columns
PlainMeta(id, name, n) ==
  LET meta == [TableMetaNew(id, name) EXCEPT !.columns = [i \in 1 .. n |-> {}]]
  IN  [meta EXCEPT !.rest_slot = max_slot(meta) * PAGE_NUM_ON_CREATE]

\* rows the table was given so far, by the slots accounted
Inserted(meta) ==
  (max_slot(meta) * (PAGE_NUM_ON_CREATE + meta.max_pagenum)) - meta.rest_slot

TheTable == db.current_tables[0]

\* the rows a page scan shows now
LiveRids(t) ==
  Let(rows_by_brute(Join(pm, disk), t).rows, LAMBDA rows :
    {rows[i] : i \in 1 .. Len(rows)})

InitTable ==
  \E n \in 1 .. MaxCols :
    \E c \in {TableFromMeta(Join(PMNew(TablePoolSize),
                                  [f \in Names |-> NoFile]),
                             PlainMeta(0, "t0", n))} :
        /\ pm = Split(c.m)
        /\ disk = c.m.disk
        /\ db = [current |-> "d", id_record |-> ("t0" :> 0),
                 current_tables |-> (0 :> c.t)]
        /\ files = NoFiles
        /\ ret = [op |-> "init"]
        /\ expect = <<>>

TblInsert(val, checked) ==
  /\ Alive
  /\ Inserted(TheTable.meta) < MaxInserts
  /\ \E r \in {TableInsert(Join(pm, disk), TheTable, val, checked)} :
         IF r.st = "panic"
         THEN ret' = Panic /\ UNCHANGED <<pm, disk, db, files, expect>>
         ELSE /\ pm' = Split(r.m)
              /\ disk' = r.m.disk
              /\ db' = [db EXCEPT !.current_tables[0] = r.t]
              /\ ret' = [op |-> "insert", rid |-> r.rid, row |-> val,
                         reused |-> \E c \in DOMAIN val :
                            LET pg == PMReadPage(Join(pm, disk), "t0",
                                                 rid2pagenum(r.rid)).page
                            IN  pg.data[rid2slot(r.rid)] # ZeroSlot]
              /\ UNCHANGED <<files, expect>>

TblDelete(rid) ==
  /\ Alive
  /\ rid \in LiveRids(TheTable)
  /\ \E r \in {TableDelete(Join(pm, disk), TheTable, rid)} :
         IF r.st = "panic"
         THEN ret' = Panic /\ UNCHANGED <<pm, disk, db, files, expect>>
         ELSE /\ pm' = Split(r.m)
              /\ disk' = r.m.disk
              /\ db' = [db EXCEPT !.current_tables[0] = r.t]
              /\ ret' = [op |-> "delete", rid |-> rid]
              /\ UNCHANGED <<files, expect>>

TblUpdate(rid, col, val) ==
  /\ Alive
  /\ rid \in LiveRids(TheTable)
  /\ \E r \in {TableUpdate(Join(pm, disk), TheTable, rid, col, val)},
        old \in {TableSelect(Join(pm, disk), TheTable, rid, col).val} :
         /\ pm' = Split(r.m)
         /\ disk' = r.m.disk
         /\ ret' = [op |-> "update", ok |-> r.ok, rid |-> rid, col |-> col,
                    val |-> val, old |-> old]
         /\ UNCHANGED <<db, files, expect>>

NextTable ==
  \/ \E val \in [1 .. colnum(TheTable.meta) -> NullVals], checked \in BOOLEAN :
       TblInsert(val, checked)
  \/ \E rid \in 0 .. (MaxPage * FixedMaxSlot + FixedMaxSlot - 1) : TblDelete(rid)
  \/ \E rid \in 0 .. (MaxPage * FixedMaxSlot + FixedMaxSlot - 1) :
       \E col \in 0 .. (colnum(TheTable.meta) - 1), val \in NullVals :
         TblUpdate(rid, col, val)

SpecTable == InitTable /\ [][NextTable]_vars

\* what select_row / select would return now
SelectRowView(t, rid) == TableSelectRow(Join(pm, disk), t, rid)

SelectView(t, rid, col) == TableSelect(Join(pm, disk), t, rid, col)

\* C3: right after Table::insert(row) returned rid, select_row(rid) returns
\* exactly row, column by column (NULL for NULL, the value otherwise), also
\* when the slot was used by a deleted row before.
C3_InsertSelectRoundTrip ==
  (Alive /\ ret.op = "insert") =>
     /\ SelectRowView(TheTable, ret.rid).ok
     /\ SelectRowView(TheTable, ret.rid).row = ret.row

\* C4: after Table::update(rid, col, v) succeeded, select(rid, col) returns
\* v, NULL or not, whatever the column held before.
C4_UpdateThenSelect ==
  (Alive /\ ret.op = "update" /\ ret.ok) =>
     /\ SelectView(TheTable, ret.rid, ret.col).ok
     /\ SelectView(TheTable, ret.rid, ret.col).val = ret.val

\* the page a read of the table's file returns
PageView(t, pagenum) == PMReadPage(Join(pm, disk), DataPath(t), pagenum).page

\* the pages of the chain that starts at head (NoneP: none), following
\* next_page until a page links to itself
RECURSIVE ChainFrom(_, _, _)
ChainFrom(t, pagenum, seen) ==
  IF pagenum \in seen THEN seen
  ELSE LET next == PageView(t, pagenum).next_page
       IN  IF next = pagenum THEN seen \cup {pagenum}
           ELSE ChainFrom(t, next, seen \cup {pagenum})

Chain(t, head) == IF head = NoneP THEN {} ELSE ChainFrom(t, head, {})

\* slots of a page in use, among the max_slot slots of the table
Occupied(t, pagenum) ==
  Cardinality(PageView(t, pagenum).slot \cap (0 .. (max_slot(t.meta) - 1)))

\* C10: after any Table::insert and Table::delete calls every allocated page
\* is reachable from exactly one of available_pages and full_pages; the
\* pages of the available chain have a free slot among the max_slot slots,
\* the pages of the full chain have all max_slot slots occupied.
PageChainPartition(t) ==
  LET avail == Chain(t, t.meta.available_pages)
      full == Chain(t, t.meta.full_pages)
  IN  /\ avail \cap full = {}
      /\ avail \cup full = 0 .. (t.meta.max_pagenum - 1)
      /\ \A p \in avail : Occupied(t, p) < max_slot(t.meta)
      /\ \A p \in full : Occupied(t, p) = max_slot(t.meta)

C10_PageChainPartition == Alive => PageChainPartition(TheTable)

(***************************************************************************)
(* The statements of one database directory "d": USE, CREATE TABLE,        *)
(* CREATE INDEX, INSERT, UPDATE, DELETE and the return of main, after      *)
(* which the next process starts.  Statements name tables of the catalog   *)
(* (CREATE TABLE a name it does not hold), a process issues USE once,      *)
(* CREATE TABLE takes the next unused name, a foreign key names another    *)
(* table, and a table is given at most MaxRows rows.  A panic ends the     *)
(* run.                                                                    *)
(*   ret.st    how the statement ended: "ok" or "err"                      *)
(*   ret.hist  history: "iu" while every statement so far succeeded and    *)
(*             none was a DELETE, "iud" while every statement succeeded,   *)
(*             "any" otherwise                                             *)
(*   ret.n     the number of statements so far                             *)
(*   ret.dup   (INSERT) a live row had the projection of the record on a   *)
(*             registered unique set;  ret.same: the statement left the    *)
(*             rows of its table as they were                              *)
(*   expect    after the return of main: whether the process had issued    *)
(*             USE, and per table the rows before the return               *)
(* SpecExec is one process after its USE, run while every statement        *)
(* succeeds; SpecRestart is a sequence of processes, each with its USE     *)
(* and its return of main.                                                 *)
(***************************************************************************)
ExecNames == {NameOf(i) : i \in 0 .. (ExecTables - 1)}

Conds == {<<>>} \cup {<<v>> : v \in Vals}

RidOrders ==
  {p \in [1 .. MaxRows -> 0 .. (MaxRows - 1)] :
     \A i, j \in 1 .. MaxRows : p[i] = p[j] => i = j}

Here == Ctx(Join(pm, disk), db, files)

\* the live rows of a table as the page scan and select_row show them
RowsOf(m, t) ==
  Let(rows_by_brute(m, t).rows, LAMBDA rs :
    [rid \in {rs[k] : k \in 1 .. Len(rs)} |-> TableSelectRow(m, t, rid).row])

\* the rows of the table of a name, loaded when it is not
TableView(c, name) ==
  Let(load_ensure(c, name), LAMBDA l :
    IF l.st # "ok" THEN [ok |-> FALSE, rows |-> <<>>]
    ELSE [ok |-> TRUE,
          rows |-> RowsOf(l.c.m, Tbl(l.c, l.c.db.id_record[name]))])

\* the loaded table of a name
MetaTable(name) == db.current_tables[db.id_record[name]]

\* the meta of the table of a name, loaded or stored
MetaOf(name) ==
  IF db.id_record[name] \in DOMAIN db.current_tables
  THEN db.current_tables[db.id_record[name]].meta
  ELSE files.metadata[name]

Hist(st, op) ==
  IF st # "ok" THEN "any"
  ELSE IF op = "delete" /\ ret.hist = "iu" THEN "iud"
  ELSE ret.hist

\* the statements are told apart as far as a property needs it
Kind(op) == IF op \in {"insert", "restart"} THEN op ELSE "stmt"

Apply(r, op, dup, same) ==
  IF r.st = "panic"
  THEN ret' = Panic /\ UNCHANGED <<pm, disk, db, files, expect>>
  ELSE /\ pm' = Split(r.c.m)
       /\ disk' = r.c.m.disk
       /\ db' = r.c.db
       /\ files' = r.c.files
       /\ ret' = [op |-> Kind(op), st |-> r.st, dup |-> dup, same |-> same,
                  hist |-> Hist(r.st, op), n |-> ret.n + 1]
       /\ expect' = <<>>

\* a process that has run nothing yet
Fresh == Ctx(Join(PMNew(TablePoolSize), [f \in Names |-> NoFile]),
             DatabaseNew, NoFiles)

InitRet ==
  [op |-> "init", st |-> "ok", dup |-> FALSE, same |-> TRUE, hist |-> "iu",
   n |-> 0]

InitRestart ==
  /\ pm = Split(Fresh.m)
  /\ disk = Fresh.m.disk
  /\ db = Fresh.db
  /\ files = Fresh.files
  /\ ret = InitRet
  /\ expect = <<>>

\* the process after USE d
InitExec ==
  \E r \in {change_database(Fresh, {})} :
    /\ pm = Split(r.c.m)
    /\ disk = r.c.m.disk
    /\ db = r.c.db
    /\ files = r.c.files
    /\ ret = InitRet
    /\ expect = <<>>

UseDatabase ==
  /\ db.current = ""
  /\ \E wr \in SUBSET CacheIdx(pm) :
       \E r \in {change_database(Here, wr)} : Apply(r, "use", FALSE, TRUE)

CreateTable(name, unique, fk) ==
  /\ db.current # ""
  /\ name \notin DOMAIN db.id_record
  /\ name = NameOf(Cardinality(DOMAIN db.id_record))
  /\ fk # NoFk => fk \in DOMAIN db.id_record
  /\ \E r \in {create_table(Here, name, unique, fk)} :
       Apply(r, "create_table", FALSE, TRUE)

CreateIndex(name) ==
  /\ name \in DOMAIN db.id_record
  /\ \E r \in {exec_create_index(Here, name)} :
       Apply(r, "create_index", FALSE, TRUE)

Insert(name, val, checked) ==
  /\ name \in DOMAIN db.id_record
  /\ Inserted(MetaOf(name)) < MaxRows
  /\ \E r \in {exec_insert(Here, name, <<val>>, checked)},
        before \in {TableView(Here, name)} :
       Apply(r, "insert",
             \E cols \in MetaOf(name).unique :
               \E rid \in DOMAIN before.rows :
                 get_data_cols(before.rows[rid], cols) = get_data_cols(<<val>>, cols),
             r.st = "panic" \/ TableView(r.c, name) = before)

Update(name, cond, val, perm) ==
  /\ name \in DOMAIN db.id_record
  /\ \E r \in {exec_update(Here, name, cond, val, perm)} :
       Apply(r, "update", FALSE, TRUE)

Delete(name, cond, perm) ==
  /\ name \in DOMAIN db.id_record
  /\ \E r \in {exec_delete(Here, name, cond, perm)} :
       Apply(r, "delete", FALSE, TRUE)

\* main returns through init::write_back; the next process starts with a
\* new page manager and a new catalog
Restart ==
  \E wr \in SUBSET CacheIdx(pm) :
    \E r \in {write_back(Here, wr)} :
      IF r.st = "panic"
      THEN ret' = Panic /\ UNCHANGED <<pm, disk, db, files, expect>>
      ELSE /\ pm' = PMNew(TablePoolSize)
           /\ disk' = r.c.m.disk
           /\ db' = DatabaseNew
           /\ files' = r.c.files
           /\ ret' = [op |-> "restart", st |-> r.st, dup |-> FALSE,
                      same |-> TRUE, hist |-> Hist(r.st, "restart"),
                      n |-> ret.n + 1]
           /\ expect' = [used |-> db.current # "",
                         rows |-> [nm \in DOMAIN db.id_record |->
                                     TableView(Here, nm)]]

\* one process: it runs while its statements succeed
Running == Alive /\ ret.st = "ok" /\ ret.n < MaxStmts

NextExec ==
  \/ \E name \in ExecNames, unique \in BOOLEAN, fk \in ExecNames \cup {NoFk} :
       Running /\ CreateTable(name, unique, fk)
  \/ \E name \in ExecNames : Running /\ CreateIndex(name)
  \/ \E name \in ExecNames, val \in NullVals, checked \in BOOLEAN :
       Running /\ Insert(name, val, checked)
  \/ \E name \in ExecNames, cond \in Conds, val \in NullVals, perm \in RidOrders :
       Running /\ Update(name, cond, val, perm)
  \/ \E name \in ExecNames, cond \in Conds, perm \in RidOrders :
       Running /\ Delete(name, cond, perm)

SpecExec == InitExec /\ [][NextExec]_vars

\* a sequence of processes
InSession == Alive /\ ret.n < MaxSessionStmts

NextRestart ==
  \/ InSession /\ UseDatabase
  \/ \E name \in ExecNames, unique \in BOOLEAN, fk \in ExecNames \cup {NoFk} :
       InSession /\ CreateTable(name, unique, fk)
  \/ \E name \in ExecNames : InSession /\ CreateIndex(name)
  \/ \E name \in ExecNames, val \in NullVals, checked \in BOOLEAN :
       InSession /\ Insert(name, val, checked)
  \/ \E name \in ExecNames, cond \in Conds, val \in NullVals, perm \in RidOrders :
       InSession /\ Update(name, cond, val, perm)
  \/ \E name \in ExecNames, cond \in Conds, perm \in RidOrders :
       InSession /\ Delete(name, cond, perm)
  \/ InSession /\ Restart

SpecRestart == InitRestart /\ [][NextRestart]_vars

\* two live rows of the table with the same projection on cols
Duplicated(name, cols) ==
  Let(TableView(Here, name), LAMBDA v :
    \E r1, r2 \in DOMAIN v.rows :
      /\ r1 # r2
      /\ get_data_cols(v.rows[r1], cols) = get_data_cols(v.rows[r2], cols))

UniqueSetsHold ==
  \A name \in DOMAIN db.id_record :
    \A cols \in MetaOf(name).unique : ~Duplicated(name, cols)

\* C1: after successful INSERT and UPDATE statements no two live rows of a
\* table are equal on a column set registered in its unique set, and an
\* INSERT of a row whose projection on such a set already exists is
\* rejected and leaves the rows of the table as they were.
C1_UniqueSets ==
  Alive =>
    /\ (ret.st = "ok" /\ ret.hist = "iu") => UniqueSetsHold
    /\ (ret.op = "insert" /\ ret.dup) => (ret.st = "err" /\ ret.same)

(***************************************************************************)
(* SpecForeign: one process after USE d and the creation of a chain of     *)
(* tables, t0 referenced by t1 and t1 by t2, run while every statement     *)
(* succeeds.                                                               *)
(***************************************************************************)
ChainSchema ==
  Let(change_database(Fresh, {}).c, LAMBDA c0 :
    Let(create_table(c0, NameOf(0), FALSE, NoFk).c, LAMBDA c1 :
      Let(create_table(c1, NameOf(1), FALSE, NameOf(0)).c, LAMBDA c2 :
        create_table(c2, NameOf(2), FALSE, NameOf(1)).c)))

InitForeign ==
  /\ pm = Split(ChainSchema.m)
  /\ disk = ChainSchema.m.disk
  /\ db = ChainSchema.db
  /\ files = ChainSchema.files
  /\ ret = InitRet
  /\ expect = <<>>

InChain == Alive /\ ret.st = "ok" /\ ret.n < MaxChainStmts

NextForeign ==
  \/ \E name \in Names : InChain /\ CreateIndex(name)
  \/ \E name \in Names, val \in NullVals, checked \in BOOLEAN :
       InChain /\ Insert(name, val, checked)
  \/ \E name \in Names, cond \in Conds, val \in NullVals, perm \in RidOrders :
       InChain /\ Update(name, cond, val, perm)
  \/ \E name \in Names, cond \in Conds, perm \in RidOrders :
       InChain /\ Delete(name, cond, perm)

SpecForeign == InitForeign /\ [][NextForeign]_vars

\* the name the catalog holds for a table id
NameOfId(id) == CHOOSE nm \in DOMAIN db.id_record : db.id_record[nm] = id

\* a live row of the table whose non-NULL projection on the columns of the
\* foreign key fk no live row of the referenced table has
Orphan(name, fk) ==
  Let(TableView(Here, name), LAMBDA v :
    Let(TableView(Here, NameOfId(fk.ftable)), LAMBDA fv :
      \E rid \in DOMAIN v.rows :
        /\ NULL \notin {get_data_cols(v.rows[rid], fk.cols)[k] :
                           k \in 1 .. Len(fk.cols)}
        /\ \A frid \in DOMAIN fv.rows :
             get_data_cols(fv.rows[frid], fk.fcols) #
               get_data_cols(v.rows[rid], fk.cols)))

ForeignKeysClosed ==
  \A name \in DOMAIN db.id_record :
    \A fk \in MetaOf(name).foreign_key : ~Orphan(name, fk)

\* C2: after a successful INSERT, UPDATE or DELETE, cascades included, every
\* live row of a table whose projection on the columns of a registered
\* foreign key is non-NULL has a live row of the referenced table with the
\* same projection on the referenced columns.
C2_ForeignKeyClosure ==
  (Alive /\ ret.st = "ok") => ForeignKeysClosed

\* the entries an index holds for a rid
EntriesOf(list, rid) == Cardinality({k \in 1 .. Len(list) : list[k].rid = rid})

\* every index of a loaded table holds one entry per live rid and none for
\* any other rid
IndexCoherent(id) ==
  Let(RowsOf(Here.m, Tbl(Here, id)), LAMBDA live :
    \A cols \in DOMAIN Tbl(Here, id).indices :
      Let(Tbl(Here, id).indices[cols], LAMBDA list :
        /\ \A rid \in DOMAIN live : EntriesOf(list, rid) = 1
        /\ \A k \in 1 .. Len(list) : list[k].rid \in DOMAIN live))

\* no slot of a page, stored or buffered, has a null bit: no statement has
\* written a NULL so far (a null bit once set is never cleared)
NoNullIn(pg) == \A sl \in DOMAIN pg.data : pg.data[sl].nullbits = {}

NoNullStored ==
  /\ \A f \in Names :
       \A k \in 1 .. Len(disk[f].pages) : NoNullIn(disk[f].pages[k])
  /\ \A i \in CacheIdx(pm) : NoNullIn(pm.page_cache[i])

\* C5: after successful INSERT, UPDATE and DELETE statements, cascades
\* included, every index of every table holds exactly one entry for each
\* live rid of the table and no entry for a rid whose slot bit is 0.  It is
\* stated of the runs that never store a NULL, which keeps the null bit that
\* Table::update leaves set (C4) out of the verdict.
C5_IndexCoherence ==
  (Alive /\ ret.st = "ok" /\ NoNullStored) =>
    \A id \in DOMAIN db.current_tables : IndexCoherent(id)

\* the rids whose slot bit is 1 in a page below max_pagenum
SlotRids(t) ==
  {entry2rid(pagenum, sl) :
     pagenum \in 0 .. (t.meta.max_pagenum - 1),
     sl \in 0 .. (max_slot(t.meta) - 1)} \cap
  {rid \in 0 .. (MaxPage * FixedMaxSlot) :
     /\ rid2pagenum(rid) < t.meta.max_pagenum
     /\ rid2slot(rid) \in PageView(t, rid2pagenum(rid)).slot}

\* Table::rows yields every rid of SlotRids once and no other rid
RowsExact(t) ==
  Let(TableRows(Here.m, t).rows, LAMBDA rows :
    /\ {rows[k] : k \in 1 .. Len(rows)} = SlotRids(t)
    /\ \A j, k \in 1 .. Len(rows) : rows[j] = rows[k] => j = k)

\* C9: in every state of a table, rows() yields exactly the rids whose slot
\* bit is 1 in a page below max_pagenum, each once, through an index as well
\* as through the page scan.  It is stated of the runs that never store a
\* NULL, as C5 is.
C9_SlotBitmapConsistency ==
  (Alive /\ NoNullStored) =>
    \A id \in DOMAIN db.current_tables : RowsExact(Tbl(Here, id))

\* the catalog a new process has after USE d
Reopened == change_database(Here, {})

\* C8: after a workload of DDL and DML and the write_back of the return of
\* main, a new catalog that opens the database holds the same tables and
\* shows for each the same live rids with the same column values as before
\* the write_back.
C8_RestartPersistence ==
  (Alive /\ ret.op = "restart" /\ ret.st = "ok" /\ expect.used) =>
    /\ Reopened.st = "ok"
    /\ DOMAIN Reopened.c.db.id_record = DOMAIN expect.rows
    /\ \A nm \in DOMAIN expect.rows :
         /\ expect.rows[nm].ok
         /\ TableView(Reopened.c, nm) = expect.rows[nm]

\* a process that issued USE returns leaving a table with a live row that is
\* not NULL, and the new catalog shows the table as it was
C8_Witness ==
  /\ Alive /\ ret.op = "restart" /\ ret.st = "ok" /\ expect.used
  /\ \E nm \in DOMAIN expect.rows :
       /\ expect.rows[nm].ok
       /\ \E rid \in DOMAIN expect.rows[nm].rows :
            expect.rows[nm].rows[rid] # <<NULL>>
       /\ TableView(Reopened.c, nm) = expect.rows[nm]

(***************************************************************************)
(* Free-slot accounting of a table (table.rs alloc_page, insert, delete;   *)
(* database.rs create_table).                                              *)
(***************************************************************************)
\* the free slots of the pages in S, among the max_slot slots of each
RECURSIVE FreeIn(_, _)
FreeIn(t, S) ==
  IF S = {} THEN 0
  ELSE LET p == CHOOSE q \in S : TRUE
       IN  (max_slot(t.meta) - Occupied(t, p)) + FreeIn(t, S \ {p})

\* the free slots of the available_pages chain
FreeSlots(t) == FreeIn(t, Chain(t, t.meta.available_pages))

\* C11: from the creation of the table on, after any inserts and deletes,
\* meta.rest_slot equals the sum over the pages of the available_pages chain
\* of max_slot minus the occupied slots of the page.
C11_FreeSlotAccounting == Alive => TheTable.meta.rest_slot = FreeSlots(TheTable)

(***************************************************************************)
(* A table of two INT columns with PRIMARY KEY (cols), cols one column or  *)
(* both (database.rs create_table, the Primary constraint), and INSERT,    *)
(* UPDATE and DELETE on it.                                                *)
(***************************************************************************)
PrimaryKeys == {<<0>>, <<0, 1>>}

\* the meta the init closure of create_table builds for PRIMARY KEY (cols):
\* the column gets the flag only when the key is a single column
PrimaryMeta(id, name, cols) ==
  LET meta == [TableMetaNew(id, name) EXCEPT
                 !.columns = [i \in 1 .. 2 |->
                                IF Len(cols) = 1 /\ cols[1] = i - 1
                                THEN {"PRIMARY_KEY"} ELSE {}],
                 !.primary = cols,
                 !.unique = {cols}]
  IN  [meta EXCEPT !.rest_slot = max_slot(meta) * PAGE_NUM_ON_CREATE]

InitPrimary ==
  \E cols \in PrimaryKeys :
    \E r \in {NewTableWith(change_database(Fresh, {}).c, "t0",
                           PrimaryMeta(0, "t0", cols))} :
      /\ pm = Split(r.c.m)
      /\ disk = r.c.m.disk
      /\ db = r.c.db
      /\ files = r.c.files
      /\ ret = InitRet
      /\ expect = <<>>

InsertRow(record, checked) ==
  /\ Inserted(MetaOf("t0")) < MaxRows
  /\ \E r \in {exec_insert(Here, "t0", record, checked)} :
       Apply(r, "insert", FALSE, TRUE)

UpdateColumn(cond, col, val, perm) ==
  \E r \in {exec_update_col(Here, "t0", cond, col, val, perm)} :
    Apply(r, "update", FALSE, TRUE)

Keyed == Alive /\ ret.st = "ok" /\ ret.n < MaxKeyStmts

NextPrimary ==
  \/ \E record \in [1 .. 2 -> NullVals], checked \in BOOLEAN :
       Keyed /\ InsertRow(record, checked)
  \/ \E cond \in Conds, col \in 0 .. 1, val \in NullVals, perm \in RidOrders :
       Keyed /\ UpdateColumn(cond, col, val, perm)
  \/ \E cond \in Conds, perm \in RidOrders :
       Keyed /\ Delete("t0", cond, perm)

SpecPrimary == InitPrimary /\ [][NextPrimary]_vars

\* C12: after INSERT and UPDATE statements that succeeded, no live row has
\* NULL in a column of the primary key of its table, whether the key is one
\* column or several.
C12_PrimaryKeyNotNull ==
  (Alive /\ ret.st = "ok") =>
    \A rid \in DOMAIN TableView(Here, "t0").rows :
      \A i \in 1 .. Len(MetaOf("t0").primary) :
        TableView(Here, "t0").rows[rid][MetaOf("t0").primary[i] + 1] # NULL

(***************************************************************************)
(* dbms/relation.rs: relation().  A condition is <<"True">>, <<"False">>,  *)
(* <<"Term", i>>, <<"Not", e>> or <<op, l, r>> with op "AND" or "OR"; a    *)
(* Logic value is a set with its sign.  sets[i] is what calc_term returns  *)
(* for term i.                                                             *)
(***************************************************************************)
Pos(x) == [pos |-> TRUE, set |-> x]

Neg(x) == [pos |-> FALSE, set |-> x]

\* Logic::not
LogicNot(x) == [x EXCEPT !.pos = ~@]

\* a wrong OR: the mixed case takes the difference the other way round
LogicOrSwapped(lhs, rhs) ==
  IF lhs.pos /\ rhs.pos THEN Pos(lhs.set \cup rhs.set)
  ELSE IF ~lhs.pos /\ ~rhs.pos THEN Neg(lhs.set \cap rhs.set)
  ELSE IF lhs.pos THEN Neg(lhs.set \ rhs.set)
  ELSE Neg(rhs.set \ lhs.set)

\* the OR arm of the closure binary of relation()
LogicOr(lhs, rhs) ==
  IF lhs.pos /\ rhs.pos THEN Pos(lhs.set \cup rhs.set)
  ELSE IF ~lhs.pos /\ ~rhs.pos THEN Neg(lhs.set \cap rhs.set)
  ELSE IF lhs.pos THEN Neg(rhs.set \ lhs.set)
  ELSE Neg(lhs.set \ rhs.set)

\* the AND arm of the closure binary of relation()
LogicAnd(lhs, rhs) ==
  IF lhs.pos /\ rhs.pos THEN Pos(lhs.set \cap rhs.set)
  ELSE IF ~lhs.pos /\ ~rhs.pos THEN Neg(lhs.set \cup rhs.set)
  ELSE IF lhs.pos THEN Pos(lhs.set \ rhs.set)
  ELSE Pos(rhs.set \ lhs.set)

RECURSIVE relation(_, _)
relation(cond, sets) ==
  IF cond[1] = "True" THEN Neg({})
  ELSE IF cond[1] = "False" THEN Pos({})
  ELSE IF cond[1] = "Not" THEN LogicNot(relation(cond[2], sets))
  ELSE IF cond[1] = "Term" THEN Pos(sets[cond[2]])
  ELSE IF cond[1] = "OR"
  THEN LogicOr(relation(cond[2], sets), relation(cond[3], sets))
  ELSE LogicAnd(relation(cond[2], sets), relation(cond[3], sets))

\* what exec::update, exec::delete and exec::select make of the result:
\* Pos(x) is x, Neg(x) is the rows of the table without x
Materialise(logic, full) == IF logic.pos THEN logic.set ELSE full \ logic.set

Terms == 1 .. MaxTerms

\* the rows() of the table as relation() holds them: [rid, 0]
Universe == {<<rid, 0>> : rid \in 0 .. (MaxRows - 1)}

RECURSIVE CondsUpTo(_)
CondsUpTo(d) ==
  IF d = 0
  THEN {<<"True">>, <<"False">>} \cup {<<"Term", i>> : i \in Terms}
  ELSE LET S == CondsUpTo(d - 1)
       IN  S \cup {<<"Not", e>> : e \in S}
             \cup {<<op, l, r>> : op \in {"AND", "OR"}, l \in S, r \in S}

InitWhere ==
  /\ pm = Split(Fresh.m)
  /\ disk = Fresh.m.disk
  /\ db = Fresh.db
  /\ files = Fresh.files
  /\ expect = <<>>
  /\ \E cond \in CondsUpTo(MaxDepth), sets \in [Terms -> SUBSET Universe] :
       ret = [op |-> "init", cond |-> cond, sets |-> sets]

Where ==
  /\ ret.op = "init"
  /\ ret' = [ret EXCEPT !.op = "relation"] @@
            [rows |-> Materialise(relation(ret.cond, ret.sets), Universe)]
  /\ UNCHANGED <<pm, disk, db, files, expect>>

NextWhere == Where

SpecWhere == InitWhere /\ [][NextWhere]_vars

\* the classical two-valued reading of a condition at x, a term read as
\* membership in its set
RECURSIVE Sat(_, _, _)
Sat(cond, sets, x) ==
  IF cond[1] = "True" THEN TRUE
  ELSE IF cond[1] = "False" THEN FALSE
  ELSE IF cond[1] = "Not" THEN ~Sat(cond[2], sets, x)
  ELSE IF cond[1] = "Term" THEN x \in sets[cond[2]]
  ELSE IF cond[1] = "OR" THEN Sat(cond[2], sets, x) \/ Sat(cond[3], sets, x)
  ELSE Sat(cond[2], sets, x) /\ Sat(cond[3], sets, x)

\* C13: for every condition built from True, False, Not, And and Or over
\* terms, the materialised result of relation() is exactly the set of the
\* rows of the universe that satisfy the condition in two-valued logic.
C13_WhereSoundComplete ==
  ret.op = "relation" =>
    ret.rows = {x \in Universe : Sat(ret.cond, ret.sets, x)}

\* an OR of a term and a negation was evaluated to some but not all rows
C13_Witness ==
  /\ ret.op = "relation"
  /\ ret.cond[1] = "OR"
  /\ ret.cond[2][1] = "Term"
  /\ ret.cond[3][1] = "Not"
  /\ ret.rows # {}
  /\ ret.rows # Universe

(***************************************************************************)
(* record/table.rs filter_rows and index/colindex.rs: the range lookups of *)
(* an index.  The BTreeSet of an index is one leaf here (a leaf holds 11   *)
(* keys); a range over it is the entries from its lower edge up to its     *)
(* upper edge, both found by the search of the leaf, the upper edge from   *)
(* the lower edge on.                                                      *)
(***************************************************************************)
CompareOps == {"EQ", "NE", "GT", "LT", "GE", "LE"}

Unbounded == [kind |-> "Unbounded", data |-> NULL]

Included(colval) == [kind |-> "Included", data |-> colval]

Excluded(colval) == [kind |-> "Excluded", data |-> colval]

\* BTreeSet::range(lower, upper) of Data keys, as a set of rids
IndexRange(m, t, list, lower, upper, col, held) ==
  Let(IF lower.kind = "Unbounded"
      THEN [st |-> "ok", found |-> FALSE, idx |-> 1, m |-> m]
      ELSE find_key_index(m, t, list, DataKey(lower.data), 1, col, held),
      LAMBDA lo :
  IF lo.st # "ok" THEN [st |-> "panic", m |-> lo.m, rids |-> {}]
  ELSE
  LET from == IF lower.kind = "Excluded" /\ lo.found THEN lo.idx + 1 ELSE lo.idx
  IN
  Let(IF upper.kind = "Unbounded"
      THEN [st |-> "ok", found |-> FALSE, idx |-> Len(list) + 1, m |-> lo.m]
      ELSE find_key_index(lo.m, t, list, DataKey(upper.data), from, col, held),
      LAMBDA hi :
  IF hi.st # "ok" THEN [st |-> "panic", m |-> hi.m, rids |-> {}]
  ELSE
  LET to == IF upper.kind = "Included" /\ hi.found THEN hi.idx + 1 ELSE hi.idx
  IN  [st |-> "ok", m |-> hi.m,
       rids |-> {list[i].rid : i \in from .. (to - 1)}]))

\* ColIndex::out_range_rows(key, key)
out_range_rows(m, t, list, colval, col, held) ==
  Let(IndexRange(m, t, list, Unbounded, Excluded(colval), col, held), LAMBDA a :
  IF a.st # "ok" THEN a
  ELSE
  Let(IndexRange(a.m, t, list, Excluded(colval), Unbounded, col, held), LAMBDA b :
    [b EXCEPT !.rids = a.rids \cup @]))

\* the closure with_index of each arm of Table::filter_rows
WithIndex(m, t, list, op, colval, col, held) ==
  IF op = "EQ"
  THEN IndexRange(m, t, list, Included(colval), Included(colval), col, held)
  ELSE IF op = "NE" THEN out_range_rows(m, t, list, colval, col, held)
  ELSE IF op = "GT"
  THEN IndexRange(m, t, list, Excluded(colval), Unbounded, col, held)
  ELSE IF op = "LT"
  THEN IndexRange(m, t, list, Unbounded, Excluded(colval), col, held)
  ELSE IF op = "GE"
  THEN IndexRange(m, t, list, Included(colval), Unbounded, col, held)
  ELSE IndexRange(m, t, list, Unbounded, Included(colval), col, held)

\* the comparison of Option<ColumnVal> values by a CompareOp, as the
\* closures is_match of Table::filter_rows and comp_colval make it
Matches(l, op, r) ==
  IF op = "EQ" THEN OptCmp(l, r) = 0
  ELSE IF op = "NE" THEN OptCmp(l, r) # 0
  ELSE IF op = "GT" THEN OptCmp(l, r) > 0
  ELSE IF op = "LT" THEN OptCmp(l, r) < 0
  ELSE IF op = "GE" THEN OptCmp(l, r) >= 0
  ELSE OptCmp(l, r) <= 0

\* the scan of Table::get_rows_by
RECURSIVE ScanMatch(_, _, _, _, _, _, _)
ScanMatch(m, t, rids, col, op, colval, acc) ==
  IF rids = <<>> THEN [st |-> "ok", rids |-> acc, m |-> m]
  ELSE Let(TableSelectCols(m, t, Head(rids), <<col>>), LAMBDA s :
         IF ~s.ok THEN [st |-> "panic", rids |-> acc, m |-> s.m]
         ELSE ScanMatch(s.m, t, Tail(rids), col, op, colval,
                IF Matches(s.row[1], op, colval)
                THEN acc \cup {Head(rids)} ELSE acc))

\* Table::filter_rows on one column
filter_rows(m, t, col, op, colval, held) ==
  IF <<col>> \in DOMAIN t.indices
  THEN WithIndex(m, t, t.indices[<<col>>], op, colval, col, held)
  ELSE Let(TableRows(m, t), LAMBDA r :
         ScanMatch(r.m, t, r.rows, col, op, colval, {}))

(***************************************************************************)
(* dbms/relation.rs: a term that compares column 0 of one table with       *)
(* column 0 of another, and naive-sql-parser defs.rs: CompareOp::rev.      *)
(***************************************************************************)
\* CompareOp::rev
rev(op) ==
  IF op = "GT" THEN "LE"
  ELSE IF op = "LT" THEN "GE"
  ELSE IF op = "GE" THEN "LT"
  ELSE IF op = "LE" THEN "GT"
  ELSE op

\* one loop of get_match_rows: every row of the table outer is selected and
\* the table inner filtered by its value; left: outer is the first table of
\* the pair
RECURSIVE MatchLoop(_, _, _, _, _, _, _)
MatchLoop(m, outer, inner, op, rids, left, acc) ==
  IF rids = <<>> THEN [st |-> "ok", m |-> m, rows |-> acc]
  ELSE Let(TableSelect(m, outer, Head(rids), 0), LAMBDA s :
         IF ~s.ok THEN [st |-> "err", m |-> s.m, rows |-> acc]
         ELSE Let(filter_rows(s.m, inner, 0, op, s.val, FALSE), LAMBDA f :
                IF f.st # "ok" THEN [st |-> "panic", m |-> f.m, rows |-> acc]
                ELSE MatchLoop(f.m, outer, inner, op, Tail(rids), left,
                       acc \cup {IF left THEN <<Head(rids), x>>
                                 ELSE <<x, Head(rids)>> : x \in f.rids})))

\* get_match_rows(ltable_id, 0, rtable_id, 0, op)
get_match_rows(c, ltable_id, rtable_id, op) ==
  IF ~check_loaded(c, ltable_id) \/ ~check_loaded(c, rtable_id)
  THEN [st |-> "panic", m |-> c.m, rows |-> {}]
  ELSE IF <<0>> \in DOMAIN Tbl(c, ltable_id).indices
  THEN Let(TableRows(c.m, Tbl(c, rtable_id)), LAMBDA r :
         MatchLoop(r.m, Tbl(c, rtable_id), Tbl(c, ltable_id), op, r.rows,
                   FALSE, {}))
  ELSE Let(TableRows(c.m, Tbl(c, ltable_id)), LAMBDA r :
         MatchLoop(r.m, Tbl(c, ltable_id), Tbl(c, rtable_id), op, r.rows,
                   TRUE, {}))

\* calc_term of ltable.c op rtable.c, two different tables of the list
\* tables of the FROM clause
calc_term(c, ltable, op, rtable, tables) ==
  IF {ltable, rtable} \ DOMAIN c.db.id_record # {}
  THEN [st |-> "err", m |-> c.m, rows |-> {}]
  ELSE Let(ensure_table(c, c.db.id_record[ltable], FALSE), LAMBDA l :
         IF l.st # "ok" THEN [st |-> l.st, m |-> l.c.m, rows |-> {}]
         ELSE IF tables[1] = ltable
         THEN get_match_rows(l.c, l.c.db.id_record[ltable],
                             l.c.db.id_record[rtable], op)
         ELSE get_match_rows(l.c, l.c.db.id_record[rtable],
                             l.c.db.id_record[ltable], rev(op)))

(***************************************************************************)
(* Two tables of one unconstrained INT column, filled by INSERT and given  *)
(* indexes by CREATE INDEX, and the queries on them.                       *)
(***************************************************************************)
PairSchema ==
  Let(change_database(Fresh, {}).c, LAMBDA c0 :
    Let(create_table(c0, NameOf(0), FALSE, NoFk).c, LAMBDA c1 :
      create_table(c1, NameOf(1), FALSE, NoFk).c))

InitQuery ==
  /\ pm = Split(PairSchema.m)
  /\ disk = PairSchema.m.disk
  /\ db = PairSchema.db
  /\ files = PairSchema.files
  /\ ret = InitRet
  /\ expect = <<>>

\* Table::filter_rows of a table that has an index, and of the same table
\* without its indexes
Filter(name, op, colval) ==
  /\ <<0>> \in DOMAIN MetaTable(name).indices
  /\ \E r \in {filter_rows(Here.m, MetaTable(name), 0, op, colval, FALSE)},
        b \in {filter_rows(Here.m, [MetaTable(name) EXCEPT !.indices = <<>>],
                           0, op, colval, FALSE)} :
       IF r.st # "ok" \/ b.st # "ok"
       THEN ret' = Panic /\ UNCHANGED <<pm, disk, db, files, expect>>
       ELSE /\ pm' = Split(r.m)
            /\ disk' = r.m.disk
            /\ ret' = [op |-> "filter", st |-> "ok", name |-> name, cmp |-> op,
                       key |-> colval, rows |-> r.rids, brute |-> b.rids,
                       n |-> ret.n + 1]
            /\ UNCHANGED <<db, files, expect>>

\* SELECT ... FROM t0, t1 WHERE ltable.c op rtable.c, up to the term
JoinTerm(ltable, op, rtable) ==
  \E r \in {calc_term(Here, ltable, op, rtable, <<NameOf(0), NameOf(1)>>)} :
    IF r.st = "panic"
    THEN ret' = Panic /\ UNCHANGED <<pm, disk, db, files, expect>>
    ELSE /\ pm' = Split(r.m)
         /\ disk' = r.m.disk
         /\ ret' = [op |-> "join", st |-> r.st, ltable |-> ltable, cmp |-> op,
                    rows |-> r.rows, n |-> ret.n + 1]
         /\ UNCHANGED <<db, files, expect>>

Asking ==
  Alive /\ ret.st = "ok" /\ ret.op \notin {"filter", "join"}
    /\ ret.n < MaxQueryStmts

NextQuery ==
  \/ \E name \in ExecNames : Asking /\ CreateIndex(name)
  \/ \E name \in ExecNames, val \in NullVals, checked \in BOOLEAN :
       Asking /\ Insert(name, val, checked)
  \/ \E name \in ExecNames, op \in CompareOps, colval \in NullVals :
       Asking /\ Filter(name, op, colval)
  \/ \E op \in CompareOps :
       \/ Asking /\ JoinTerm(NameOf(0), op, NameOf(1))
       \/ Asking /\ JoinTerm(NameOf(1), op, NameOf(0))

SpecQuery == InitQuery /\ [][NextQuery]_vars

\* the value of column 0 of the live rows of a table, by rid
ColumnOf(name) ==
  [rid \in DOMAIN TableView(Here, name).rows |->
     TableView(Here, name).rows[rid][1]]

\* C14: a term that compares the column of one table with the column of the
\* other under EQ, NE, LT, LE, GT or GE evaluates to exactly the pairs
\* [rid of the first FROM table, rid of the second] whose values satisfy the
\* comparison as written, with or without an index and whichever table is
\* on the left.
C14_JoinTermPairs ==
  (Alive /\ ret.op = "join" /\ ret.st = "ok") =>
    ret.rows =
      {p \in (DOMAIN ColumnOf(NameOf(0))) \X (DOMAIN ColumnOf(NameOf(1))) :
         IF ret.ltable = NameOf(0)
         THEN Matches(ColumnOf(NameOf(0))[p[1]], ret.cmp, ColumnOf(NameOf(1))[p[2]])
         ELSE Matches(ColumnOf(NameOf(1))[p[2]], ret.cmp, ColumnOf(NameOf(0))[p[1]])}

\* C15: for every content of a table, every op of EQ, NE, LT, LE, GT, GE and
\* every key, NULL included, Table::filter_rows returns the same rids with
\* an index on the column as without one.
C15_FilterIndexEqualsScan ==
  (Alive /\ ret.op = "filter") => ret.rows = ret.brute

(***************************************************************************)
(* utils/lru.rs: an LruRecord over LruSize indices under any sequence of   *)
(* access calls.  ret.order lists the indices accessed so far, the most    *)
(* recently accessed first.                                                *)
(***************************************************************************)
LruIndices == 0 .. (LruSize - 1)

InitLru ==
  /\ pm = Split(Fresh.m)
  /\ disk = Fresh.m.disk
  /\ db = Fresh.db
  /\ files = Fresh.files
  /\ expect = <<>>
  /\ ret = [op |-> "init", lru |-> LruNew(LruSize), order |-> <<>>]

Access(i) ==
  /\ ret' = [op |-> "access", lru |-> LruAccess(ret.lru, i),
             order |-> <<i>> \o SelectSeq(ret.order, LAMBDA x : x # i)]
  /\ UNCHANGED <<pm, disk, db, files, expect>>

NextLru == \E i \in LruIndices : Access(i)

SpecLru == InitLru /\ [][NextLru]_vars

\* the indices whose most recent access is the oldest: those never
\* accessed when there are any, else the last of the order
Oldest ==
  IF \E i \in LruIndices : \A k \in 1 .. Len(ret.order) : ret.order[k] # i
  THEN {i \in LruIndices : \A k \in 1 .. Len(ret.order) : ret.order[k] # i}
  ELSE {ret.order[Len(ret.order)]}

\* C16: after any sequence of access calls, the same index twice in a row
\* included, find_furthest returns the index whose most recent access is
\* the oldest, an index never accessed counting as older than every
\* accessed one.
C16_LruFurthest == LruFindFurthest(ret.lru) \in Oldest

(***************************************************************************)
(* index/colindex.rs: the comparator of index entries, applied to the      *)
(* entries of the rows of a table and to data keys.                        *)
(***************************************************************************)
\* the table after Table::insert of the values of vals, in order
RECURSIVE Filled(_, _)
Filled(r, vals) ==
  IF vals = <<>> \/ r.st # "ok" THEN r
  ELSE Filled(TableInsert(r.m, r.t, <<Head(vals)>>, FALSE), Tail(vals))

InitCompare ==
  \E vals \in [1 .. MaxEntries -> NullVals] :
    \E c \in {TableFromMeta(Join(PMNew(TablePoolSize),
                                  [f \in Names |-> NoFile]),
                             PlainMeta(0, "t0", 1))} :
      \E r \in {Filled([st |-> "ok", m |-> c.m, t |-> c.t, rid |-> 0], vals)} :
        /\ r.st = "ok"
        /\ pm = Split(r.m)
        /\ disk = r.m.disk
        /\ db = [current |-> "d", id_record |-> ("t0" :> 0),
                 current_tables |-> (0 :> r.t)]
        /\ files = NoFiles
        /\ ret = [op |-> "init"]
        /\ expect = <<>>

\* the entries of the rows x and y compared by EntryRef::comp_at, and the
\* entry of x compared with the data key by EntryRef::comp_with_data_at
Compare(x, y, key) ==
  /\ ret.op = "init"
  /\ {x, y} \subseteq LiveRids(TheTable)
  /\ x # y
  /\ \E a \in {EntryRef(x, SelectView(TheTable, x, 0).val)},
        b \in {EntryRef(y, SelectView(TheTable, y, 0).val)} :
       \E e \in {comp_at(Join(pm, disk), TheTable, a, b, 0, FALSE)} :
         \E d \in {IF e.st # "ok" THEN e
                   ELSE comp_with_data_at(e.m, TheTable, a, key, 0, FALSE)} :
           IF d.st # "ok"
           THEN ret' = Panic /\ UNCHANGED <<pm, disk, db, files, expect>>
           ELSE /\ pm' = Split(d.m)
                /\ disk' = d.m.disk
                /\ ret' = [op |-> "compare", a |-> a, b |-> b, key |-> key,
                           entry |-> e.ord, data |-> d.ord]
                /\ UNCHANGED <<db, files, expect>>

NextCompare ==
  \E x, y \in 0 .. (MaxPage * FixedMaxSlot + FixedMaxSlot - 1), key \in NullVals :
    Compare(x, y, key)

SpecCompare == InitCompare /\ [][NextCompare]_vars

\* C17: in the index comparator NULL compares greater than every non-NULL
\* value, an entry against an entry and an entry against a data key.
C17_NullGreatest ==
  (Alive /\ ret.op = "compare") =>
    /\ (ret.a.is_null /\ ~ret.b.is_null) => ret.entry = 1
    /\ (~ret.a.is_null /\ ret.b.is_null) => ret.entry = -1
    /\ (ret.a.is_null /\ ret.key # NULL) => ret.data = 1
    /\ (~ret.a.is_null /\ ret.key = NULL) => ret.data = -1

(***************************************************************************)
(* dbms/database.rs: USE at any point of a session, the database in use    *)
(* being the target included, between CREATE TABLE and INSERT statements.  *)
(***************************************************************************)
\* USE d
Switch ==
  \E wr \in SUBSET CacheIdx(pm) :
    \E r \in {change_database(Here, wr)} :
      IF r.st = "panic"
      THEN ret' = Panic /\ UNCHANGED <<pm, disk, db, files, expect>>
      ELSE /\ pm' = Split(r.c.m)
           /\ disk' = r.c.m.disk
           /\ db' = r.c.db
           /\ files' = r.c.files
           /\ ret' = [op |-> "use", st |-> r.st, dup |-> FALSE, same |-> TRUE,
                      hist |-> ret.hist, n |-> ret.n + 1]
           /\ expect' = <<>>

Switching == Alive /\ ret.st = "ok" /\ ret.n < MaxSwitchStmts

NextSwitch ==
  \/ Switching /\ Switch
  \/ \E name \in Names : Switching /\ CreateTable(name, FALSE, NoFk)
  \/ \E name \in Names, val \in NullVals, checked \in BOOLEAN :
       Switching /\ Insert(name, val, checked)

SpecSwitch == InitRestart /\ [][NextSwitch]_vars

\* C18: change_database writes the database in use back before it reads
\* the catalog of the target, so that after a successful USE the catalog
\* holds every table recorded for the target database, the tables created
\* earlier in the session included when the target is the database in use.
C18_SwitchAfterWriteBack ==
  (Alive /\ ret.op = "use" /\ ret.st = "ok") =>
    \A name \in DOMAIN files.tablemeta :
      /\ name \in DOMAIN db.id_record
      /\ db.id_record[name] = files.tablemeta[name]

(***************************************************************************)
(* cli.rs exec_sql, dbms/exec.rs impl Exec for Vec<SqlStmt> and main.rs:   *)
(* a file of statements run as one batch on a table t0 with a UNIQUE       *)
(* column.  expect.batch is the parsed file, ret.n the number of           *)
(* statements attempted.                                                   *)
(***************************************************************************)
BatchStmts ==
  {[kind |-> "insert", val |-> v, cond |-> <<>>] : v \in Vals}
    \cup {[kind |-> "delete", val |-> NULL, cond |-> cond] : cond \in Conds}

RECURSIVE SeqsUpTo(_, _)
SeqsUpTo(S, n) ==
  IF n = 0 THEN {<<>>}
  ELSE SeqsUpTo(S, n - 1)
         \cup {Append(b, x) : b \in SeqsUpTo(S, n - 1), x \in S}

BatchSchema ==
  create_table(change_database(Fresh, {}).c, NameOf(0), TRUE, NoFk).c

InitBatch ==
  /\ pm = Split(BatchSchema.m)
  /\ disk = BatchSchema.m.disk
  /\ db = BatchSchema.db
  /\ files = BatchSchema.files
  /\ ret = [op |-> "init", st |-> "ok", n |-> 0]
  /\ \E batch \in SeqsUpTo(BatchStmts, MaxBatch) \ {<<>>} :
       expect = [batch |-> batch]

\* one iteration of the loop of Vec<SqlStmt>::exec: sql.exec()?
BatchStep(perm) ==
  /\ Alive
  /\ ret.op \in {"init", "stmt"}
  /\ ret.st = "ok"
  /\ ret.n < Len(expect.batch)
  /\ \E r \in {IF expect.batch[ret.n + 1].kind = "insert"
               THEN exec_insert(Here, NameOf(0),
                                <<expect.batch[ret.n + 1].val>>, FALSE)
               ELSE exec_delete(Here, NameOf(0),
                                expect.batch[ret.n + 1].cond, perm)} :
       IF r.st = "panic"
       THEN ret' = Panic /\ UNCHANGED <<pm, disk, db, files, expect>>
       ELSE /\ pm' = Split(r.c.m)
            /\ disk' = r.c.m.disk
            /\ db' = r.c.db
            /\ files' = r.c.files
            /\ ret' = [op |-> "stmt", st |-> r.st, n |-> ret.n + 1]
            /\ UNCHANGED expect

\* the loop ended, or ? returned the Err of a statement: exec_sql and
\* run_cli pass the result on, and main runs write_back only after Ok
BatchExit ==
  /\ Alive
  /\ ret.op \in {"init", "stmt"}
  /\ ret.st # "ok" \/ ret.n = Len(expect.batch)
  /\ IF ret.st # "ok"
     THEN /\ pm' = PMNew(TablePoolSize)
          /\ db' = DatabaseNew
          /\ ret' = [ret EXCEPT !.op = "exit"]
          /\ UNCHANGED <<disk, files, expect>>
     ELSE \E wr \in SUBSET CacheIdx(pm) :
            \E r \in {write_back(Here, wr)} :
              IF r.st = "panic"
              THEN ret' = Panic /\ UNCHANGED <<pm, disk, db, files, expect>>
              ELSE /\ pm' = PMNew(TablePoolSize)
                   /\ disk' = r.c.m.disk
                   /\ db' = DatabaseNew
                   /\ files' = r.c.files
                   /\ ret' = [ret EXCEPT !.op = "exit"]
                   /\ UNCHANGED expect

NextBatch ==
  \/ \E perm \in RidOrders : BatchStep(perm)
  \/ BatchExit

SpecBatch == InitBatch /\ [][NextBatch]_vars

\* C19: in batch mode a statement that fails does not keep the statements
\* after it from running: when the process exits, every statement of the
\* file has been attempted, in order.
C19_BatchRunsEveryStatement ==
  (Alive /\ ret.op = "exit") => ret.n = Len(expect.batch)

(***************************************************************************)
(* dbms/exec.rs update: UPDATE of the key column of a referenced table t0, *)
(* with a table t1 whose column is a FOREIGN KEY to it, between INSERT and *)
(* CREATE INDEX statements.                                                *)
(***************************************************************************)
ParentChildSchema ==
  Let(change_database(Fresh, {}).c, LAMBDA c0 :
    Let(create_table(c0, NameOf(0), FALSE, NoFk).c, LAMBDA c1 :
      create_table(c1, NameOf(1), FALSE, NameOf(0)).c))

InitCascade ==
  /\ pm = Split(ParentChildSchema.m)
  /\ disk = ParentChildSchema.m.disk
  /\ db = ParentChildSchema.db
  /\ files = ParentChildSchema.files
  /\ ret = InitRet
  /\ expect = <<>>

\* UPDATE t0 SET c = val WHERE cond; ret keeps the rows both tables had
ParentUpdate(cond, val, perm) ==
  \E r \in {exec_update(Here, NameOf(0), cond, val, perm)} :
    IF r.st = "panic"
    THEN ret' = Panic /\ UNCHANGED <<pm, disk, db, files, expect>>
    ELSE /\ pm' = Split(r.c.m)
         /\ disk' = r.c.m.disk
         /\ db' = r.c.db
         /\ files' = r.c.files
         /\ ret' = [op |-> "cascade", st |-> r.st, dup |-> FALSE,
                    same |-> TRUE, hist |-> ret.hist, n |-> ret.n + 1,
                    val |-> val,
                    parent |-> TableView(Here, NameOf(0)).rows,
                    child |-> TableView(Here, NameOf(1)).rows]
         /\ expect' = <<>>

Cascading == Alive /\ ret.st = "ok" /\ ret.n < MaxCascadeStmts

NextCascade ==
  \/ \E name \in ExecNames : Cascading /\ CreateIndex(name)
  \/ \E name \in ExecNames, val \in NullVals, checked \in BOOLEAN :
       Cascading /\ Insert(name, val, checked)
  \/ \E cond \in Conds, val \in NullVals, perm \in RidOrders :
       Cascading /\ ParentUpdate(cond, val, perm)

SpecCascade == InitCascade /\ [][NextCascade]_vars

\* the values the UPDATE took away from a row of t0
Replaced ==
  {ret.parent[rid][1] : rid \in
     {x \in DOMAIN ret.parent :
        /\ x \in DOMAIN TableView(Here, NameOf(0)).rows
        /\ TableView(Here, NameOf(0)).rows[x][1] # ret.parent[x][1]}}

\* C20: when an UPDATE changes the referenced key column of a row of t0
\* from old to new, afterwards every row of t1 whose foreign key column was
\* old holds new, and the other rows of t1 are unchanged.
C20_CascadingUpdate ==
  (Alive /\ ret.op = "cascade" /\ ret.st = "ok") =>
    /\ DOMAIN TableView(Here, NameOf(1)).rows = DOMAIN ret.child
    /\ \A rid \in DOMAIN ret.child :
         TableView(Here, NameOf(1)).rows[rid][1] =
           IF ret.child[rid][1] \in Replaced THEN ret.val
           ELSE ret.child[rid][1]

(***************************************************************************)
(* record/table.rs create_index with unique_required, as ADD PRIMARY KEY   *)
(* (exec.rs add_primary) calls it: inside ensure_table_mut, so that the    *)
(* table is mutably borrowed while the set of keys is searched.            *)
(***************************************************************************)
\* the loop of Table::create_index: with unique_required the set is asked
\* for the Data key of the row before the entry is inserted
RECURSIVE BuildChecked(_, _, _, _, _, _, _)
BuildChecked(m, t, rids, cols, list, unique_required, held) ==
  IF rids = <<>> THEN [st |-> "ok", m |-> m, list |-> list]
  ELSE
  Let(TableSelectCols(m, t, Head(rids), cols), LAMBDA s :
  IF ~s.ok THEN [st |-> "err", m |-> s.m, list |-> list]
  ELSE
  Let(IF unique_required
      THEN IndexContains(s.m, t, list, s.row[1], cols[1], held)
      ELSE [st |-> "ok", found |-> FALSE, m |-> s.m], LAMBDA f :
  IF f.st # "ok" THEN [st |-> "panic", m |-> f.m, list |-> list]
  ELSE IF f.found THEN [st |-> "err", m |-> f.m, list |-> list]
  ELSE
  Let(find_key_index(f.m, t, list, RefKey(EntryRef(Head(rids), s.row[1])), 1,
                     cols[1], held), LAMBDA i :
  IF i.st # "ok" THEN [st |-> "panic", m |-> i.m, list |-> list]
  ELSE BuildChecked(i.m, t, Tail(rids), cols,
                    IF i.found THEN list
                    ELSE InsertAt(list, i.idx, EntryRef(Head(rids), s.row[1])),
                    unique_required, held))))

\* Table::create_index(cols, unique_required)
create_index_checked(m, t, cols, unique_required, held) ==
  Let(TableRows(m, t), LAMBDA r :
    BuildChecked(r.m, t, r.rows, cols, <<>>, unique_required, held))

\* exec::add_primary on column 0
add_primary(c, name) ==
  Let(load_table(c, name), LAMBDA l :
  IF l.st # "ok" THEN l
  ELSE
  Let(l.c.db.id_record[name], LAMBDA id :
  IF Tbl(l.c, id).meta.primary # <<>> THEN Res("err", l.c)
  ELSE
  Let(IF <<0>> \in DOMAIN Tbl(l.c, id).indices
      THEN [st |-> "kept", m |-> l.c.m, list |-> <<>>]
      ELSE create_index_checked(l.c.m, Tbl(l.c, id), <<0>>, TRUE, TRUE),
      LAMBDA x :
  IF x.st \in {"err", "panic"} THEN Res(x.st, SetM(l.c, x.m))
  ELSE Res("ok",
         [l.c EXCEPT
            !.m = x.m,
            !.db.current_tables[id].indices =
               IF x.st = "kept" THEN @ ELSE Put(@, <<0>>, x.list),
            !.db.current_tables[id].meta.primary =
               IF x.st = "kept" THEN @ ELSE <<0>>,
            !.db.current_tables[id].meta.unique =
               IF x.st = "kept" THEN @ ELSE @ \cup {<<0>>},
            !.db.current_tables[id].meta.columns[1] =
               @ \cup {"PRIMARY_KEY"}]))))

\* the search of create_index asks for a borrow of the table (get_table in
\* comp_with_data_at, ensure_table in comp_at) that the caller has mutably
\* borrowed: the build ends in a panic it would not end in otherwise
BorrowedAgain(m, t) ==
  /\ create_index_checked(m, t, <<0>>, TRUE, TRUE).st = "panic"
  /\ create_index_checked(m, t, <<0>>, TRUE, FALSE).st # "panic"

AlterSchema == create_table(change_database(Fresh, {}).c, "t0", FALSE, NoFk).c

InitAlter ==
  /\ pm = Split(AlterSchema.m)
  /\ disk = AlterSchema.m.disk
  /\ db = AlterSchema.db
  /\ files = AlterSchema.files
  /\ ret = InitRet
  /\ expect = <<>>

\* ALTER TABLE t0 ADD PRIMARY KEY (c); expect keeps what the table was
\* before and how the statement ended
AddPrimary ==
  \E r \in {add_primary(Here, "t0")} :
    /\ expect' = [op |-> "add_primary", st |-> r.st,
                  dup |-> Duplicated("t0", <<0>>),
                  built |-> MetaTable("t0").indices = <<>>,
                  reborrow |-> MetaTable("t0").indices = <<>>
                                 /\ MetaTable("t0").meta.primary = <<>>
                                 /\ BorrowedAgain(Join(pm, disk), MetaTable("t0")),
                  added |-> r.st # "panic"
                              /\ Tbl(r.c, 0).indices # MetaTable("t0").indices]
    /\ IF r.st = "panic"
       THEN ret' = Panic /\ UNCHANGED <<pm, disk, db, files>>
       ELSE /\ pm' = Split(r.c.m)
            /\ disk' = r.c.m.disk
            /\ db' = r.c.db
            /\ files' = r.c.files
            /\ ret' = [op |-> "stmt", st |-> r.st, dup |-> FALSE,
                       same |-> TRUE, hist |-> "any", n |-> ret.n + 1]

Altering == Alive /\ ret.n < MaxAlterStmts

NextAlter ==
  \/ Altering /\ AddPrimary
  \/ Altering /\ CreateIndex("t0")
  \/ \E val \in NullVals, checked \in BOOLEAN :
       Altering /\ Insert("t0", val, checked)
  \/ \E cond \in Conds, perm \in RidOrders :
       Altering /\ Delete("t0", cond, perm)

SpecAlter == InitAlter /\ [][NextAlter]_vars

\* C21: when an index is built with unique_required over a table in which
\* two live rows are equal on the indexed columns, the statement returns an
\* error (the process does not abort) and the table gets no index.
C21_UniqueBuildRejectsDuplicates ==
  ("built" \in DOMAIN expect /\ expect.built /\ expect.dup) =>
    (expect.st = "err" /\ ~expect.added)

(***************************************************************************)
(* record/table.rs create_index over a column list of any length, on a     *)
(* table of two INT columns (a list may name a column more than once).     *)
(* An entry of the index holds fast_cmp and the NULL bit of every listed   *)
(* column.                                                                 *)
(***************************************************************************)
\* the EntryRef create_index makes of a row (data2fastcmp)
CompRef(rid, row_data) ==
  [rid |-> rid,
   fast_cmp |-> [i \in 1 .. Len(row_data) |-> data2fastcmp(row_data[i]).fast_cmp],
   is_null |-> {i \in 1 .. Len(row_data) : row_data[i] = NULL}]

\* position i of an entry
EntryAt(e, i) ==
  [rid |-> e.rid, fast_cmp |-> e.fast_cmp[i], is_null |-> i \in e.is_null]

\* Ord for EntryRef: comp_at for idx in 0..len, then the rids
RECURSIVE RefCmp(_, _, _, _, _, _)
RefCmp(m, t, a, b, cols, i) ==
  IF i > Len(cols) THEN Ord(IntCmp(a.rid, b.rid), m)
  ELSE Let(comp_at(m, t, EntryAt(a, i), EntryAt(b, i), cols[i], FALSE),
           LAMBDA c :
         IF c.st # "ok" \/ c.ord # 0 THEN c
         ELSE RefCmp(c.m, t, a, b, cols, i + 1))

\* Ord for IndexKey, (Ref, Data): comp_with_data_at for idx in 0..len
RECURSIVE DataCmp(_, _, _, _, _, _)
DataCmp(m, t, e, data, cols, i) ==
  IF i > Len(cols) THEN Ord(0, m)
  ELSE Let(comp_with_data_at(m, t, EntryAt(e, i), data[i], cols[i], FALSE),
           LAMBDA c :
         IF c.st # "ok" \/ c.ord # 0 THEN c
         ELSE DataCmp(c.m, t, e, data, cols, i + 1))

\* the search of the leaf for a key: a Ref (an entry) or a Data (values)
RECURSIVE CompFind(_, _, _, _, _, _)
CompFind(m, t, list, key, start, cols) ==
  IF start > Len(list)
  THEN [st |-> "ok", found |-> FALSE, idx |-> start, m |-> m]
  ELSE Let(IF key.kind = "Ref"
           THEN RefCmp(m, t, key.ref, list[start], cols, 1)
           ELSE Let(DataCmp(m, t, list[start], key.data, cols, 1), LAMBDA c :
                  IF c.st # "ok" THEN c ELSE Ord(0 - c.ord, c.m)),
           LAMBDA c :
         IF c.st # "ok"
         THEN [st |-> "panic", found |-> FALSE, idx |-> start, m |-> c.m]
         ELSE IF c.ord > 0 THEN CompFind(c.m, t, list, key, start + 1, cols)
         ELSE [st |-> "ok", found |-> c.ord = 0, idx |-> start, m |-> c.m])

\* the loop of Table::create_index
RECURSIVE BuildCols(_, _, _, _, _, _)
BuildCols(m, t, rids, cols, list, unique_required) ==
  IF rids = <<>> THEN [st |-> "ok", m |-> m, list |-> list]
  ELSE
  Let(TableSelectCols(m, t, Head(rids), cols), LAMBDA s :
  IF ~s.ok THEN [st |-> "err", m |-> s.m, list |-> list]
  ELSE
  Let(IF unique_required
      THEN CompFind(s.m, t, list, DataKey(s.row), 1, cols)
      ELSE [st |-> "ok", found |-> FALSE, m |-> s.m], LAMBDA f :
  IF f.st # "ok" THEN [st |-> "panic", m |-> f.m, list |-> list]
  ELSE IF f.found THEN [st |-> "err", m |-> f.m, list |-> list]
  ELSE
  Let(CompFind(f.m, t, list, RefKey(CompRef(Head(rids), s.row)), 1, cols),
      LAMBDA i :
  IF i.st # "ok" THEN [st |-> "panic", m |-> i.m, list |-> list]
  ELSE BuildCols(i.m, t, Tail(rids), cols,
                 IF i.found THEN list
                 ELSE InsertAt(list, i.idx, CompRef(Head(rids), s.row)),
                 unique_required))))

\* Table::create_index(cols, unique_required): the length check, then the
\* loop over rows()
create_index_cols(m, t, cols, unique_required) ==
  IF Len(cols) >= MAX_COMP_INDEX THEN [st |-> "err", m |-> m, list |-> <<>>]
  ELSE Let(rows_by_brute(m, t), LAMBDA r :
         BuildCols(r.m, t, r.rows, cols, <<>>, unique_required))

ColLists ==
  UNION {[1 .. n -> 0 .. 1] : n \in 0 .. MaxIndexLen}

InitIndexCols ==
  \E c \in {TableFromMeta(Join(PMNew(TablePoolSize), [f \in Names |-> NoFile]),
                          PlainMeta(0, "t0", 2))} :
    /\ pm = Split(c.m)
    /\ disk = c.m.disk
    /\ db = [current |-> "d", id_record |-> ("t0" :> 0),
             current_tables |-> (0 :> c.t)]
    /\ files = NoFiles
    /\ ret = [op |-> "init"]
    /\ expect = <<>>

\* Table::insert of a row, while the table has fewer than MaxIndexRows
InsertForIndex(val) ==
  /\ Inserted(TheTable.meta) < MaxIndexRows
  /\ TblInsert(val, TRUE)

\* Table::create_index(cols, unique_required) on the table; the index is
\* returned to the caller and the table left as it is
CreateIndexOn(cols, unique_required) ==
  /\ Alive
  /\ \E r \in {create_index_cols(Join(pm, disk), TheTable, cols, unique_required)} :
       IF r.st = "panic"
       THEN ret' = Panic /\ UNCHANGED <<pm, disk, db, files, expect>>
       ELSE /\ pm' = Split(r.m)
            /\ disk' = r.m.disk
            /\ ret' = [op |-> "create_index", cols |-> cols,
                       unique_required |-> unique_required,
                       st |-> r.st, list |-> r.list,
                       dup |-> unique_required /\
                                 \E r1, r2 \in LiveRids(TheTable) :
                                   /\ r1 # r2
                                   /\ TableSelectCols(Join(pm, disk), TheTable, r1, cols).row
                                        = TableSelectCols(Join(pm, disk), TheTable, r2, cols).row]
            /\ UNCHANGED <<db, files, expect>>

NextIndexCols ==
  \/ \E val \in [1 .. 2 -> NullVals] : InsertForIndex(val)
  \/ \E cols \in ColLists, unique_required \in BOOLEAN :
       CreateIndexOn(cols, unique_required)

SpecIndexCols == InitIndexCols /\ [][NextIndexCols]_vars

\* C22: Table::create_index accepts a column list of length 1, 2 or 3 and
\* rejects every other length with an error (where the rows do not break a
\* required uniqueness, which is another error).
C22_IndexLengthLimit ==
  (Alive /\ ret.op = "create_index" /\ ~ret.dup) =>
    (ret.st = "ok" <=> Len(ret.cols) \in 1 .. 3)

\* C23: during a statement no borrow of a table is requested while an
\* exclusive borrow of that table is outstanding; here for ADD PRIMARY KEY,
\* whose index build runs inside the exclusive borrow of ensure_table_mut.
C23_NoReentrantBorrow ==
  "reborrow" \in DOMAIN expect => ~expect.reborrow

\* C24: page 0 of the data file of a table is a reserved sentinel: no RowID
\* that Table::insert returns lies in page 0 and no row is stored there.
C24_PageZeroReserved ==
  Alive =>
    /\ ret.op = "insert" => rid2pagenum(ret.rid) # 0
    /\ \A rid \in LiveRids(TheTable) : rid2pagenum(rid) # 0

(***************************************************************************)
(* dbms/exec.rs add_foreign and drop_foreign, dbms/database.rs drop_table  *)
(* and create_table with several FOREIGN KEY constraints, on tables of one *)
(* INT column.                                                             *)
(***************************************************************************)
\* the loop of add_foreign over the rows of table: every row must be found
\* in ftable, which the caller has mutably borrowed
RECURSIVE ForeignRowsLoop(_, _, _, _)
ForeignRowsLoop(m, table, ftable, rids) ==
  IF rids = <<>> THEN [st |-> "ok", m |-> m]
  ELSE Let(TableSelectCols(m, table, Head(rids), <<0>>), LAMBDA s :
         IF ~s.ok THEN [st |-> "err", m |-> s.m]
         ELSE Let(check_data_exist(s.m, ftable, s.row, <<0>>, TRUE), LAMBDA f :
                IF f.st # "ok" THEN [st |-> "panic", m |-> f.m]
                ELSE IF ~f.found THEN [st |-> "err", m |-> f.m]
                ELSE ForeignRowsLoop(f.m, table, ftable, Tail(rids))))

\* exec::add_foreign: column 0 of table references column 0 of ftable
add_foreign(c, name, fname) ==
  Let(load_table(c, name), LAMBDA l1 :
  IF l1.st # "ok" THEN l1
  ELSE
  Let(load_table(l1.c, fname), LAMBDA l2 :
  IF l2.st # "ok" THEN l2
  ELSE
  Let(l2.c.db.id_record[name], LAMBDA table_id :
  Let(l2.c.db.id_record[fname], LAMBDA ftable_id :
  IF table_id = ftable_id THEN Res("panic", l2.c)
  ELSE
  Let(IF <<0>> \in DOMAIN Tbl(l2.c, ftable_id).indices
      THEN [st |-> "kept", m |-> l2.c.m, list |-> <<>>]
      ELSE create_index_checked(l2.c.m, Tbl(l2.c, ftable_id), <<0>>, TRUE, TRUE),
      LAMBDA x :
  IF x.st \in {"err", "panic"} THEN Res(x.st, SetM(l2.c, x.m))
  ELSE
  Let([l2.c EXCEPT
         !.m = x.m,
         !.db.current_tables[ftable_id].indices =
            IF x.st = "kept" THEN @ ELSE Put(@, <<0>>, x.list),
         !.db.current_tables[ftable_id].meta.unique =
            IF x.st = "kept" THEN @ ELSE @ \cup {<<0>>}], LAMBDA c1 :
  Let(TableRows(c1.m, Tbl(c1, table_id)), LAMBDA r :
  Let(ForeignRowsLoop(r.m, Tbl(c1, table_id), Tbl(c1, ftable_id), r.rows),
      LAMBDA f :
  IF f.st # "ok" THEN Res(f.st, SetM(c1, f.m))
  ELSE Res("ok",
         [c1 EXCEPT
            !.m = f.m,
            !.db.current_tables =
               [[@ EXCEPT
                   ![ftable_id].meta.columns[1] = @ \cup {"AS_FOREIGN_KEY"},
                   ![ftable_id].meta.as_foreign_key =
                      @ \cup {[fcols |-> <<0>>, ref |-> table_id, cols |-> <<0>>]}]
                EXCEPT
                   ![table_id].meta.columns[1] = @ \cup {"FOREIGN_KEY"},
                   ![table_id].meta.foreign_key =
                      {k \in @ : k.cols # <<0>>}
                        \cup {[cols |-> <<0>>, ftable |-> ftable_id,
                               fcols |-> <<0>>]}]])))))))))

\* exec::drop_foreign
drop_foreign(c, name, fname) ==
  Let(load_table(c, name), LAMBDA l1 :
  IF l1.st # "ok" THEN l1
  ELSE
  Let(load_table(l1.c, fname), LAMBDA l2 :
  IF l2.st # "ok" THEN l2
  ELSE
  Let(l2.c.db.id_record[name], LAMBDA table_id :
  Let(l2.c.db.id_record[fname], LAMBDA ftable_id :
  IF table_id = ftable_id THEN Res("panic", l2.c)
  ELSE IF [fcols |-> <<0>>, ref |-> table_id, cols |-> <<0>>]
            \notin Tbl(l2.c, ftable_id).meta.as_foreign_key
  THEN Res("err", l2.c)
  ELSE
  Let(Tbl(l2.c, ftable_id).meta.as_foreign_key
        \ {[fcols |-> <<0>>, ref |-> table_id, cols |-> <<0>>]}, LAMBDA refs :
  Res("ok",
      [l2.c EXCEPT
         !.db.current_tables =
            [[@ EXCEPT
                ![ftable_id].meta.as_foreign_key = refs,
                ![ftable_id].meta.columns[1] =
                   IF \E a \in refs : a.fcols = <<0>> THEN @
                   ELSE @ \ {"AS_FOREIGN_KEY"}]
             EXCEPT
                ![table_id].meta.foreign_key = {k \in @ : k.cols # <<0>>}]]))))))

\* Table::delete_self: the meta file, the buffers and the data file go
delete_self(c, t) ==
  Let(PMCloseFile(c.m, DataPath(t)), LAMBDA x :
    IF ~x.ok
    THEN Res("err", [c EXCEPT !.m = x.m,
                              !.files.metadata = Drop(@, t.meta.name)])
    ELSE Res("ok", [c EXCEPT !.m = [x.m EXCEPT !.disk[DataPath(t)] = NoFile],
                             !.files.metadata = Drop(@, t.meta.name)]))

\* database::drop_table: the name leaves id_record, then the table is
\* taken out of the catalog (or loaded from its files) and deleted
drop_table(c, name) ==
  IF name \notin DOMAIN c.db.id_record THEN Res("err", c)
  ELSE
  Let(c.db.id_record[name], LAMBDA id :
  Let([c EXCEPT !.db.id_record = Drop(@, name)], LAMBDA c1 :
  IF check_loaded(c, id)
  THEN delete_self([c1 EXCEPT !.db.current_tables = Drop(@, id)], Tbl(c, id))
  ELSE IF name \notin DOMAIN c.files.metadata THEN Res("err", c1)
  ELSE Let(PMOpenFile(c1.m, name), LAMBDA o :
         IF ~o.ok THEN Res("err", SetM(c1, o.m))
         ELSE delete_self(SetM(c1, o.m),
                          [meta |-> c.files.metadata[name], indices |-> <<>>]))))

\* database::create_table with the FOREIGN KEY constraints fks: every
\* constraint replaces the closure of the one before, the last one is run
create_table_fks(c, name, fks) ==
  Let(new_table(c, name, FALSE), LAMBDA n :
    IF n.st # "ok" \/ fks = <<>> THEN n
    ELSE foreign(n.c, n.c.db.id_record[name], fks[Len(fks)]))

CreateTableFks(name, fks) ==
  /\ name \notin DOMAIN db.id_record
  /\ \A i \in 1 .. Len(fks) : fks[i] \in DOMAIN db.id_record
  /\ \E r \in {create_table_fks(Here, name, fks)} :
       Apply(r, "create_table", FALSE, TRUE)

AddForeign(name, fname) ==
  /\ {name, fname} \subseteq DOMAIN db.id_record
  /\ \E r \in {add_foreign(Here, name, fname)} :
       Apply(r, "add_foreign", FALSE, TRUE)

DropForeign(name, fname) ==
  /\ {name, fname} \subseteq DOMAIN db.id_record
  /\ \E r \in {drop_foreign(Here, name, fname)} :
       Apply(r, "drop_foreign", FALSE, TRUE)

DropTable(name) ==
  /\ name \in DOMAIN db.id_record
  /\ \E r \in {drop_table(Here, name)} : Apply(r, "drop_table", FALSE, TRUE)

InSchema == Alive /\ ret.n < MaxSchemaStmts

NextSchema ==
  \/ \E name \in Names, fks \in SeqsUpTo(Names, MaxFks) :
       InSchema /\ CreateTableFks(name, fks)
  \/ \E name \in Names, fname \in Names : InSchema /\ AddForeign(name, fname)
  \/ \E name \in Names, fname \in Names : InSchema /\ DropForeign(name, fname)
  \/ \E name \in Names : InSchema /\ DropTable(name)
  \/ \E name \in Names, val \in NullVals :
       InSchema /\ Insert(name, val, TRUE)

SpecSchema == InitExec /\ [][NextSchema]_vars

\* the table that has the id
Named(id) == {n \in DOMAIN db.id_record : db.id_record[n] = id}

\* C25: after any sequence of CREATE TABLE, ADD FOREIGN KEY, DROP FOREIGN
\* KEY and DROP TABLE, the foreign_key of table T maps C to (T', C') if and
\* only if (T, C) is in the as_foreign_key of T' under C', and both tables
\* exist.
C25_ForeignKeySymmetric ==
  Alive =>
    \A name \in DOMAIN db.id_record :
      /\ \A k \in MetaOf(name).foreign_key :
           \E fname \in Named(k.ftable) :
             [fcols |-> k.fcols, ref |-> db.id_record[name], cols |-> k.cols]
               \in MetaOf(fname).as_foreign_key
      /\ \A a \in MetaOf(name).as_foreign_key :
           \E rname \in Named(a.ref) :
             [cols |-> a.cols, ftable |-> db.id_record[name], fcols |-> a.fcols]
               \in MetaOf(rname).foreign_key

(***************************************************************************)
(* dbms/database.rs: create_database, change_database and drop_database    *)
(* over several database directories.  In this specification files maps    *)
(* the name of every directory under BASE_DIR to the catalog stored in it, *)
(* and no table is created, so that a write back stores the catalog only.  *)
(***************************************************************************)
DbNames == {"d", "e"}

\* Database::current_database: the last component of current, unwrapped
current_database(d) ==
  IF d.current = "" THEN [st |-> "panic", name |-> ""]
  ELSE [st |-> "ok", name |-> d.current]

\* Database::create_database: create_dir, then an empty catalog stored
create_database(d, dirs, name) ==
  IF name \in DOMAIN dirs THEN [st |-> "err", db |-> d, dirs |-> dirs]
  ELSE [st |-> "ok", db |-> d,
        dirs |-> Put(dirs, name, [tablemeta |-> <<>>])]

\* Database::change_database to a name: the catalog of the directory is
\* loaded, the catalog in use written back, then replaced
change_database_to(d, dirs, name) ==
  IF name \notin DOMAIN dirs THEN [st |-> "err", db |-> d, dirs |-> dirs]
  ELSE [st |-> "ok",
        db |-> [current |-> name, id_record |-> dirs[name].tablemeta,
                current_tables |-> <<>>],
        dirs |-> IF d.current = "" THEN dirs
                 ELSE Put(dirs, d.current, [tablemeta |-> d.id_record])]

\* Database::drop_database
drop_database(d, dirs, name) ==
  IF current_database(d).st = "panic"
  THEN [st |-> "panic", db |-> d, dirs |-> dirs]
  ELSE IF name = current_database(d).name
  THEN [st |-> "err", db |-> d, dirs |-> dirs]
  ELSE IF name \notin DOMAIN dirs THEN [st |-> "err", db |-> d, dirs |-> dirs]
  ELSE [st |-> "ok", db |-> d, dirs |-> Drop(dirs, name)]

InitDatabases ==
  /\ pm = Split(Fresh.m)
  /\ disk = Fresh.m.disk
  /\ db = DatabaseNew
  /\ files = <<>>
  /\ ret = [op |-> "init", st |-> "ok", n |-> 0]
  /\ expect = <<>>

\* one statement on the databases; expect keeps what the statement met and
\* how it ended
DbStmt(r, op, name) ==
  /\ expect' = [op |-> op, name |-> name, st |-> r.st,
                current |-> db.current, existed |-> name \in DOMAIN files,
                left |-> DOMAIN r.dirs]
  /\ IF r.st = "panic"
     THEN ret' = Panic /\ UNCHANGED <<pm, disk, db, files>>
     ELSE /\ db' = r.db
          /\ files' = r.dirs
          /\ ret' = [op |-> op, st |-> r.st, n |-> ret.n + 1]
          /\ UNCHANGED <<pm, disk>>

CreateDatabase(name) ==
  \E r \in {create_database(db, files, name)} : DbStmt(r, "create_database", name)

UseDb(name) ==
  \E r \in {change_database_to(db, files, name)} : DbStmt(r, "use", name)

DropDatabase(name) ==
  \E r \in {drop_database(db, files, name)} : DbStmt(r, "drop_database", name)

InDatabases == Alive /\ ret.n < MaxDbStmts

NextDatabases ==
  \/ \E name \in DbNames : InDatabases /\ CreateDatabase(name)
  \/ \E name \in DbNames : InDatabases /\ UseDb(name)
  \/ \E name \in DbNames : InDatabases /\ DropDatabase(name)

SpecDatabases == InitDatabases /\ [][NextDatabases]_vars

\* C26: drop_database(name) returns an error and removes nothing when name
\* is the current database, and removes the directory of the database when
\* name is not the current database, also when no database is current.
C26_DropDatabase ==
  ("op" \in DOMAIN expect /\ expect.op = "drop_database") =>
    IF expect.name = expect.current
    THEN expect.st = "err" /\ expect.left = DOMAIN files
    ELSE expect.existed => (expect.st = "ok" /\ expect.name \notin DOMAIN files)

(***************************************************************************)
(* record/table.rs select, select_cols and select_row on rids that are not *)
(* live, in SpecTable.                                                     *)
(***************************************************************************)
AllRids == 0 .. (MaxPage * FixedMaxSlot + FixedMaxSlot - 1)

\* the page of rid is not below max_pagenum, or the slot bit of rid is 0
NotLive(rid) ==
  \/ rid2pagenum(rid) >= TheTable.meta.max_pagenum
  \/ rid2slot(rid) \notin PageView(TheTable, rid2pagenum(rid)).slot

\* select of every column, select_cols and select_row of rid return Err
SelectsFail(rid) ==
  /\ ~SelectRowView(TheTable, rid).ok
  /\ SelectRowView(TheTable, rid).row = <<>>
  /\ \A col \in 0 .. (colnum(TheTable.meta) - 1) :
       /\ ~SelectView(TheTable, rid, col).ok
       /\ ~TableSelectCols(Join(pm, disk), TheTable, rid, <<col>>).ok

DeadRidsFail ==
  Alive =>
    /\ \A rid \in AllRids : NotLive(rid) => SelectsFail(rid)
    /\ ret.op = "delete" => SelectsFail(ret.rid)

\* the statements of SpecTable, with expect keeping the rids whose selects
\* failed before the statement
Selected(r, op, rid) ==
  IF r.st = "panic"
  THEN ret' = Panic /\ UNCHANGED <<pm, disk, db, files, expect>>
  ELSE /\ pm' = Split(r.m)
       /\ disk' = r.m.disk
       /\ db' = [db EXCEPT !.current_tables[0] = r.t]
       /\ ret' = [op |-> op, rid |-> IF op = "insert" THEN r.rid ELSE rid]
       /\ expect' = [failed |-> {x \in AllRids : SelectsFail(x)}]
       /\ UNCHANGED files

SelInsert(val, checked) ==
  /\ Alive
  /\ Inserted(TheTable.meta) < MaxInserts
  /\ \E r \in {TableInsert(Join(pm, disk), TheTable, val, checked)} :
       Selected(r, "insert", 0)

SelDelete(rid) ==
  /\ Alive
  /\ rid \in LiveRids(TheTable)
  /\ \E r \in {TableDelete(Join(pm, disk), TheTable, rid)} :
       Selected(r, "delete", rid)

SelUpdate(rid, col, val) ==
  /\ Alive
  /\ rid \in LiveRids(TheTable)
  /\ \E r \in {TableUpdate(Join(pm, disk), TheTable, rid, col, val)} :
       Selected([st |-> "ok", m |-> r.m, t |-> TheTable], "update", rid)

InitSelect ==
  /\ InitTable
  /\ colnum(TheTable.meta) = 1

NextSelect ==
  \/ \E val \in [1 .. 1 -> NullVals], checked \in BOOLEAN : SelInsert(val, checked)
  \/ \E rid \in AllRids : SelDelete(rid)
  \/ \E rid \in AllRids, val \in NullVals : SelUpdate(rid, 0, val)

SpecSelect == InitSelect /\ [][NextSelect]_vars

\* C27: select, select_cols and select_row return an error and no value for
\* every rid whose page number is not below max_pagenum or whose slot bit is
\* 0; after delete(rid) every select of rid fails, and a rid whose selects
\* failed has them succeed only after an insert that returned that rid.
C27_SelectOfDeadRid ==
  Alive =>
    /\ DeadRidsFail
    /\ expect # <<>> =>
         \A rid \in expect.failed :
           SelectsFail(rid) \/ (ret.op = "insert" /\ ret.rid = rid)

\* a row that was live has been deleted from a page the table has
C27_Witness ==
  /\ Alive
  /\ ret.op = "delete"
  /\ rid2pagenum(ret.rid) < TheTable.meta.max_pagenum
  /\ SelectsFail(ret.rid)

(***************************************************************************)
(* SpecShutdown: a process runs statements and returns through             *)
(* init::write_back, taken one step at a time.  From the first step on     *)
(* expect holds the position of write_back: pc, the catalog taken out of   *)
(* DATABASE, the tables that were loaded, the tables not yet written back, *)
(* the table being written back, its indices not yet stored and the index  *)
(* files stored so far.                                                    *)
(***************************************************************************)
\* an Index::store that writes no file
IndexStoreLost(stored, name, cols, list) == stored

\* Persistence::store of an Index: the file of the table and column list
IndexStore(stored, name, cols, list) == Put(stored, <<name, cols>>, list)

InWriteBack == "pc" \in DOMAIN expect

At(pc) == InWriteBack /\ expect.pc = pc

\* the result of write_back
Returned(st) == [ret EXCEPT !.op = "write_back", !.st = st]

\* database::write_back: DATABASE.take() leaves a new catalog behind; with
\* no database in use nothing is stored
WbTake ==
  /\ Alive
  /\ expect = <<>>
  /\ db' = DatabaseNew
  /\ expect' = [pc |-> IF db.current = "" THEN "flush_last" ELSE "store",
                database |-> db, loaded |-> db.current_tables,
                tables |-> <<>>, cur |-> <<>>, idx |-> {}, stored |-> <<>>,
                dirty |-> pm.dirty # {}]
  /\ ret' = [ret EXCEPT !.op = "write_back"]
  /\ UNCHANGED <<pm, disk, files>>

\* Database::write_back: self.store(dir), then current_tables.take()
WbStore ==
  /\ At("store")
  /\ files' = [files EXCEPT !.tablemeta = expect.database.id_record]
  /\ expect' = [expect EXCEPT !.pc = "table",
                              !.tables = expect.database.current_tables,
                              !.database.current_tables = <<>>]
  /\ UNCHANGED <<pm, disk, db, ret>>

\* Database::write_back: the loop over the tables, in the order of the map
WbTable ==
  /\ At("table")
  /\ IF expect.tables = <<>>
     THEN expect' = [expect EXCEPT !.pc = "flush_last",
                                   !.database.current = ""]
     ELSE \E i \in DOMAIN expect.tables :
            expect' = [expect EXCEPT !.pc = "meta",
                                     !.cur = expect.tables[i],
                                     !.tables = Drop(@, i)]
  /\ UNCHANGED <<pm, disk, db, files, ret>>

\* Table::write_back: self.meta.store(dir)
WbMeta ==
  /\ At("meta")
  /\ files' = [files EXCEPT
                 !.metadata = Put(@, expect.cur.meta.name, expect.cur.meta)]
  /\ expect' = [expect EXCEPT !.pc = "index",
                              !.idx = DOMAIN expect.cur.indices]
  /\ UNCHANGED <<pm, disk, db, ret>>

\* Table::write_back: index.store(dir) for every index, in the order of the
\* map
WbIndex ==
  /\ At("index")
  /\ IF expect.idx = {}
     THEN expect' = [expect EXCEPT !.pc = "flush"]
     ELSE \E cols \in expect.idx :
            expect' = [expect EXCEPT
                         !.idx = @ \ {cols},
                         !.stored = IndexStore(@, expect.cur.meta.name, cols,
                                               expect.cur.indices[cols])]
  /\ UNCHANGED <<pm, disk, db, files, ret>>

\* Table::write_back: page_manager::flush_all()?
WbFlush ==
  /\ At("flush")
  /\ \E wr \in SUBSET CacheIdx(pm) :
       \E f \in {PMFlushAll(Join(pm, disk), wr)} :
         /\ pm' = Split(f.m)
         /\ disk' = f.m.disk
         /\ expect' = [expect EXCEPT !.pc = IF f.ok THEN "close" ELSE "done"]
         /\ ret' = IF f.ok THEN ret ELSE Returned("err")
  /\ UNCHANGED <<db, files>>

\* Table::write_back: page_manager::close_file(&self.data_path)?
WbClose ==
  /\ At("close")
  /\ \E x \in {PMCloseFile(Join(pm, disk), DataPath(expect.cur))} :
       /\ pm' = Split(x.m)
       /\ disk' = x.m.disk
       /\ expect' = [expect EXCEPT !.pc = IF x.ok THEN "table" ELSE "done"]
       /\ ret' = IF x.ok THEN ret ELSE Returned("err")
  /\ UNCHANGED <<db, files>>

\* init::write_back: page_manager::flush_all()? after database::write_back
WbFlushLast ==
  /\ At("flush_last")
  /\ \E wr \in SUBSET CacheIdx(pm) :
       \E f \in {PMFlushAll(Join(pm, disk), wr)} :
         /\ pm' = Split(f.m)
         /\ disk' = f.m.disk
         /\ expect' = [expect EXCEPT !.pc = "done"]
         /\ ret' = Returned(IF f.ok THEN "ok" ELSE "err")
  /\ UNCHANGED <<db, files>>

\* the statements of the process come before its write_back
InProcess == Alive /\ expect = <<>> /\ ret.n < MaxShutdownStmts

NextShutdown ==
  \/ InProcess /\ UseDatabase
  \/ \E name \in ExecNames, unique \in BOOLEAN, fk \in ExecNames \cup {NoFk} :
       InProcess /\ CreateTable(name, unique, fk)
  \/ \E name \in ExecNames : InProcess /\ CreateIndex(name)
  \/ \E name \in ExecNames, val \in NullVals, checked \in BOOLEAN :
       InProcess /\ Insert(name, val, checked)
  \/ WbTake
  \/ WbStore
  \/ WbTable
  \/ WbMeta
  \/ WbIndex
  \/ WbFlush
  \/ WbClose
  \/ WbFlushLast

SpecShutdown == InitRestart /\ [][NextShutdown]_vars

\* the meta file and every index file of the table hold what the table held
Stored(t) ==
  /\ t.meta.name \in DOMAIN files.metadata
  /\ files.metadata[t.meta.name] = t.meta
  /\ \A cols \in DOMAIN t.indices :
       /\ <<t.meta.name, cols>> \in DOMAIN expect.stored
       /\ expect.stored[<<t.meta.name, cols>>] = t.indices[cols]

AllStored == \A i \in DOMAIN expect.loaded : Stored(expect.loaded[i])

\* C28: in write_back the meta file and all index files of a table are
\* stored before the flush of its Table::write_back, those of every loaded
\* table are stored before the last flush of the buffer pool, and when
\* write_back returns Ok no buffer is dirty and no table is loaded in the
\* catalog.
C28_ShutdownOrder ==
  InWriteBack =>
    /\ At("flush") => Stored(expect.cur)
    /\ At("flush_last") => AllStored
    /\ (At("done") /\ ret.st = "ok") =>
         /\ AllStored
         /\ pm.dirty = {}
         /\ db.current_tables = <<>>
         /\ expect.database.current_tables = <<>>

\* write_back has returned Ok for a process that had a table with an index
\* loaded and a dirty buffer in the pool
C28_Witness ==
  /\ At("done")
  /\ ret.st = "ok"
  /\ expect.dirty
  /\ \E i \in DOMAIN expect.loaded :
       /\ DOMAIN expect.loaded[i].indices # {}
       /\ \E cols \in DOMAIN expect.loaded[i].indices :
            Len(expect.loaded[i].indices[cols]) > 0

(***************************************************************************)
(* SpecFile: filesystem/file_manager.rs on the bytes of one file, driven   *)
(* as test_simple_io drives it.  disk is the file: its bytes and the       *)
(* position of the handle.  expect maps each page written to the buffer    *)
(* last written to it.                                                     *)
(***************************************************************************)
ZeroBytes(n) == [i \in 1 .. n |-> 0]

\* the buffers of a write: up to a page of bytes
FileBufs == UNION {[1 .. n -> 0 .. MaxByte] : n \in 0 .. PAGE_SIZE}

FilePages == 0 .. MaxFilePage

\* PageBuf::from(&[u8])
PageBufFrom(buf) ==
  [i \in 1 .. PAGE_SIZE |-> IF i <= Min(Len(buf), PAGE_SIZE) THEN buf[i] ELSE 0]

\* File::set_len: the file is cut or extended with zeros
set_len(file, len) ==
  [file EXCEPT !.bytes = IF len <= Len(@) THEN SubSeq(@, 1, len)
                         ELSE @ \o ZeroBytes(len - Len(@))]

\* Seek::seek(SeekFrom::Start(..))
seek(file, pos) == [file EXCEPT !.pos = pos]

\* Write::write_all at the position of the handle; a write past the end
\* leaves zeros between the old end and the position
write_all(file, buf) ==
  IF Len(buf) = 0 THEN file
  ELSE LET end == file.pos + Len(buf)
           old == file.bytes
       IN  [bytes |-> [i \in 1 .. (IF end > Len(old) THEN end ELSE Len(old)) |->
                         IF i > file.pos /\ i <= end THEN buf[i - file.pos]
                         ELSE IF i <= Len(old) THEN old[i] ELSE 0],
            pos |-> end]

\* an fs_write_page_from that does not fill the page
FsWriteUnpadded(file, pagenum, buf) ==
  write_all(seek(file, pagenum * PAGE_SIZE), buf)

\* fs_write_page_from
fs_write_page_from(file, pagenum, buf) ==
  LET len == Min(Len(buf), PAGE_SIZE)
      w == write_all(seek(file, pagenum * PAGE_SIZE), buf)
  IN  IF len < PAGE_SIZE THEN write_all(w, ZeroBytes(PAGE_SIZE - len)) ELSE w

\* fs_read_page_to: read_exact fills the buffer or meets the end of the
\* file; then the file is set to pagenum pages and the buffer zero filled
fs_read_page_to(file, pagenum, buf) ==
  LET s == seek(file, pagenum * PAGE_SIZE)
      want == Min(PAGE_SIZE, Len(buf))
  IN  IF s.pos + want <= Len(s.bytes)
      THEN [file |-> [s EXCEPT !.pos = @ + want],
            buf |-> [i \in 1 .. Len(buf) |->
                       IF i <= want THEN s.bytes[s.pos + i] ELSE buf[i]]]
      ELSE [file |-> set_len([s EXCEPT !.pos = IF @ < Len(s.bytes)
                                               THEN Len(s.bytes) ELSE @],
                             pagenum * PAGE_SIZE),
            buf |-> ZeroBytes(Len(buf))]

\* fs_read_page
fs_read_page(file, pagenum) ==
  fs_read_page_to(file, pagenum, ZeroBytes(PAGE_SIZE))

\* fs_create_file
fs_create_file == set_len([bytes |-> <<>>, pos |-> 0],
                          PAGE_NUM_ON_CREATE * PAGE_SIZE)

\* drop(file), then fs_open_file: a new handle on the same bytes
fs_open_file(file) == [file EXCEPT !.pos = 0]

\* what fs_read_page shows of every page
FileView(file) == [k \in FilePages |-> fs_read_page(file, k).buf]

InitFile ==
  /\ disk = fs_create_file
  /\ ret = [op |-> "create", reopened |-> FALSE]
  /\ expect = <<>>
  /\ pm = <<>>
  /\ db = <<>>
  /\ files = <<>>

FileWrite(pagenum, buf) ==
  /\ disk' = fs_write_page_from(disk, pagenum, buf)
  /\ ret' = [op |-> "write", pagenum |-> pagenum, buf |-> buf,
             reopened |-> FALSE]
  /\ expect' = Put(expect, pagenum, buf)
  /\ UNCHANGED <<pm, db, files>>

FileRead(pagenum) ==
  /\ \E r \in {fs_read_page(disk, pagenum)} :
       /\ disk' = r.file
       /\ ret' = [op |-> "read", pagenum |-> pagenum, page |-> r.buf,
                  before |-> FileView(disk),
                  eof |-> pagenum * PAGE_SIZE >= Len(disk.bytes),
                  reopened |-> ret.reopened]
  /\ UNCHANGED <<pm, db, files, expect>>

FileReopen ==
  /\ disk' = fs_open_file(disk)
  /\ ret' = [op |-> "reopen", reopened |-> TRUE]
  /\ UNCHANGED <<pm, db, files, expect>>

NextFile ==
  \/ \E pagenum \in FilePages, buf \in FileBufs : FileWrite(pagenum, buf)
  \/ \E pagenum \in FilePages : FileRead(pagenum)
  \/ FileReopen

SpecFile == InitFile /\ [][NextFile]_vars

\* the page the writes so far should leave at pagenum
Written(pagenum) ==
  IF pagenum \in DOMAIN expect THEN PageBufFrom(expect[pagenum])
  ELSE ZeroBytes(PAGE_SIZE)

\* C29: after fs_write_page_from(file, n, buf) with buf no longer than a
\* page, fs_read_page(file, n) returns buf followed by zeros up to the page
\* size, also after the file is closed and opened again; fs_read_page of a
\* page never written, inside the file or past its end, returns a page of
\* zeros, and a read changes what fs_read_page returns for no page.
C29_FileRoundTrip ==
  /\ \A pagenum \in FilePages : fs_read_page(disk, pagenum).buf = Written(pagenum)
  /\ ret.op = "read" =>
       /\ ret.page = Written(ret.pagenum)
       /\ FileView(disk) = ret.before

\* a page past the end of the file has been read after the file was opened
\* again, and a page written with a buffer shorter than a page that holds a
\* byte that is not zero reads back filled with zeros
C29_Witness ==
  /\ ret.op = "read"
  /\ ret.eof
  /\ ret.reopened
  /\ ret.pagenum \notin DOMAIN expect
  /\ \E pagenum \in DOMAIN expect :
       /\ Len(expect[pagenum]) \in 1 .. (PAGE_SIZE - 1)
       /\ \E i \in 1 .. Len(expect[pagenum]) : expect[pagenum][i] # 0
       /\ fs_read_page(disk, pagenum).buf = PageBufFrom(expect[pagenum])

(***************************************************************************)
(* SpecRows: exec::insert and exec::update taken one access of the table   *)
(* at a time, on t0 (x INT NOT NULL UNIQUE) and t1 (x INT, FOREIGN KEY (x) *)
(* REFERENCES t0(x)).  While a statement runs expect holds its position:   *)
(* pc, the table, the records or rows still to do, the record or row at    *)
(* hand, and what the tables held before the checks of the record (snap),  *)
(* before its write (mid) and before its index entries were inserted       *)
(* (post).                                                                 *)
(***************************************************************************)
RowSchema ==
  Let(change_database(Fresh, {}).c, LAMBDA c0 :
    Let(NewTableWith(c0, NameOf(0),
          [NewMeta(0, NameOf(0), TRUE) EXCEPT
             !.columns = <<{"UNIQUE", "NOT_NULL"}>>]).c, LAMBDA c1 :
      create_table(c1, NameOf(1), FALSE, NameOf(0)).c))

InitRows ==
  /\ pm = Split(RowSchema.m)
  /\ disk = RowSchema.m.disk
  /\ db = RowSchema.db
  /\ files = RowSchema.files
  /\ ret = InitRet
  /\ expect = <<>>

\* the pages, the meta (rest_slot and the page chains in it) and the indices
\* of every loaded table
Content(c) ==
  [id \in DOMAIN c.db.current_tables |->
     [meta |-> Tbl(c, id).meta,
      indices |-> Tbl(c, id).indices,
      pages |-> [p \in 0 .. (Tbl(c, id).meta.max_pagenum - 1) |->
                   PMReadPage(c.m, DataPath(Tbl(c, id)), p).page]]]

PagesOf(content) ==
  [id \in DOMAIN content |-> [meta |-> content[id].meta,
                              pages |-> content[id].pages]]

IndicesOf(content) == [id \in DOMAIN content |-> content[id].indices]

\* the checks of exec::insert without the loop over meta.unique
InsertChecksNoUnique(c, id, record) ==
  Let(ensure_table(c, id, FALSE), LAMBDA l :
  IF l.st # "ok" THEN l
  ELSE IF ~check_type_insert(Tbl(l.c, id).meta, record) THEN Res("err", l.c)
  ELSE ForeignLoop(l.c, record, Tbl(l.c, id).meta.foreign_key, NULL))

\* exec::insert, the first closure of a record: check_type_insert, the loop
\* over meta.unique, the loop over meta.foreign_key
InsertChecks(c, id, record) ==
  Let(ensure_table(c, id, FALSE), LAMBDA l :
  IF l.st # "ok" THEN l
  ELSE IF ~check_type_insert(Tbl(l.c, id).meta, record) THEN Res("err", l.c)
  ELSE
  Let(UniqueLoop(l.c, id, record, Tbl(l.c, id).meta.unique, NULL), LAMBDA u :
  IF u.st # "ok" THEN u
  ELSE ForeignLoop(u.c, record, Tbl(u.c, id).meta.foreign_key, NULL)))

\* exec::update, the first closure of a row: select_row, the loops over
\* meta.unique and meta.foreign_key, the rows gathered for the cascade
UpdateChecks(c, id, row, col, val, fu) ==
  Let(TableSelectRow(c.m, Tbl(c, id), row), LAMBDA s :
  IF ~s.ok THEN [st |-> "err", c |-> SetM(c, s.m), fu |-> fu, row_data |-> <<>>]
  ELSE
  Let(UniqueLoop(SetM(c, s.m), id, [s.row EXCEPT ![col + 1] = val],
                 Tbl(c, id).meta.unique, col),
      LAMBDA u :
  IF u.st # "ok" THEN [st |-> u.st, c |-> u.c, fu |-> fu, row_data |-> s.row]
  ELSE
  Let(ForeignLoop(u.c, [s.row EXCEPT ![col + 1] = val],
                  Tbl(c, id).meta.foreign_key, col),
      LAMBDA k :
  IF k.st # "ok" THEN [st |-> k.st, c |-> k.c, fu |-> fu, row_data |-> s.row]
  ELSE
  Let(GatherLoop(k.c, s.row, col, Tbl(c, id).meta.as_foreign_key, {}),
      LAMBDA g :
    [st |-> g.st, c |-> g.c, fu |-> g.fu, row_data |-> s.row]))))

InStmt == Alive /\ "pc" \in DOMAIN expect

Pc(pc) == InStmt /\ expect.pc = pc

\* no statement is running
Idle == Alive /\ ("pc" \in DOMAIN expect => expect.pc \in {"done", "rejected", "failed"})

\* a step of a statement: the state it leaves, the position and the result
Stepped(r, e, st) ==
  IF r.st = "panic"
  THEN ret' = Panic /\ UNCHANGED <<pm, disk, db, files, expect>>
  ELSE /\ pm' = Split(r.c.m)
       /\ disk' = r.c.m.disk
       /\ db' = r.c.db
       /\ files' = r.c.files
       /\ expect' = e
       /\ ret' = [ret EXCEPT !.st = st]

\* exec::insert up to the loop over the records
InsStart(name, records, checked) ==
  /\ Idle
  /\ ret.n < MaxRowStmts
  /\ name \in DOMAIN db.id_record
  /\ Inserted(MetaOf(name)) + Len(records) <= MaxRows
  /\ expect' = [pc |-> "check", stmt |-> "insert", id |-> db.id_record[name],
                todo |-> records, cur |-> <<>>, data |-> <<>>, rid |-> 0,
                col |-> 0, val |-> NULL, fu |-> {}, perm |-> <<>>,
                checked |-> checked, snap |-> <<>>, mid |-> <<>>,
                post |-> <<>>, start |-> Content(Here)]
  /\ ret' = [ret EXCEPT !.op = "insert", !.st = "ok", !.n = @ + 1]
  /\ UNCHANGED <<pm, disk, db, files>>

\* the checks of the next record
InsCheck ==
  /\ Pc("check")
  /\ \E r \in {InsertChecks(Here, expect.id, Head(expect.todo))} :
       Stepped(r, [expect EXCEPT !.pc = IF r.st = "ok" THEN "write" ELSE "rejected",
                                 !.cur = Head(expect.todo),
                                 !.todo = Tail(expect.todo),
                                 !.snap = Content(Here)],
               r.st)

\* modify_table: Table::insert of the record
InsWrite ==
  /\ Pc("write")
  /\ \E i \in {TableInsert(Join(pm, disk), Tbl(Here, expect.id), expect.cur,
                           expect.checked)} :
       Stepped(IF i.st # "ok" THEN Res("panic", Here)
               ELSE Res("ok", SetTable(SetM(Here, i.m), expect.id, i.t)),
               [expect EXCEPT !.pc = "index", !.rid = i.rid,
                              !.mid = Content(Here)],
               "ok")

\* get_table: insert_index_at of the row written
InsIndex ==
  /\ Pc("index")
  /\ \E x \in {insert_index_at(Join(pm, disk), Tbl(Here, expect.id),
                               expect.rid, expect.cur)} :
       Stepped(Res(x.st, SetTable(SetM(Here, x.m), expect.id, x.t)),
               [expect EXCEPT !.pc = IF x.st # "ok" THEN "failed"
                                     ELSE IF expect.todo = <<>> THEN "done"
                                     ELSE "check",
                              !.post = Content(Here)],
               x.st)

\* exec::update is called
UpdStart(name, cond, val, perm) ==
  /\ Idle
  /\ ret.n < MaxRowStmts
  /\ name \in DOMAIN db.id_record
  /\ expect' = [pc |-> "rows", stmt |-> "update", id |-> db.id_record[name],
                todo |-> cond, cur |-> <<>>, data |-> <<>>, rid |-> 0,
                col |-> 0, val |-> val, fu |-> {}, perm |-> perm,
                checked |-> FALSE, snap |-> <<>>, mid |-> <<>>,
                post |-> <<>>, start |-> Content(Here)]
  /\ ret' = [ret EXCEPT !.op = "update", !.st = "ok", !.n = @ + 1]
  /\ UNCHANGED <<pm, disk, db, files>>

\* exec::update up to the loop over the rows: load_table, the rows of the
\* condition, check_column_type of the value
UpdRows ==
  /\ Pc("rows")
  /\ \E l \in {load_ensure(Here, NameOfId(expect.id))} :
       IF l.st # "ok"
       THEN Stepped(l, [expect EXCEPT !.pc = "failed"], l.st)
       ELSE
         \E r \in {Relation(l.c, expect.id, expect.todo)} :
           \E typed \in {check_column_type(Tbl(l.c, expect.id).meta,
                                          expect.val, expect.col)} :
             Stepped(IF r.st # "ok" THEN Res("panic", l.c)
                     ELSE Res("ok", SetM(l.c, r.m)),
                     [expect EXCEPT
                        !.pc = IF ~typed THEN "rejected"
                               ELSE IF r.rids = {} THEN "cascade"
                               ELSE "ucheck",
                        !.todo = OrderBy(r.rids, expect.perm),
                        !.snap = Content(Here)],
                     IF typed THEN "ok" ELSE "err")

\* the checks of the next row
UpdCheck ==
  /\ Pc("ucheck")
  /\ \E u \in {UpdateChecks(Here, expect.id, Head(expect.todo), expect.col,
                            expect.val, expect.fu)} :
       Stepped(u, [expect EXCEPT !.pc = IF u.st = "ok" THEN "uremove"
                                        ELSE "rejected",
                                 !.cur = Head(expect.todo),
                                 !.todo = Tail(expect.todo),
                                 !.data = u.row_data,
                                 !.fu = u.fu,
                                 !.snap = Content(Here)],
               u.st)

\* get_table: remove_index_at of the row as it was
UpdRemove ==
  /\ Pc("uremove")
  /\ \E x \in {remove_index_at(Join(pm, disk), Tbl(Here, expect.id),
                               expect.cur, expect.data)} :
       Stepped(IF x.st # "ok" THEN Res("panic", Here)
               ELSE Res("ok", SetTable(SetM(Here, x.m), expect.id, x.t)),
               [expect EXCEPT !.pc = "uwrite"], "ok")

\* modify_table: Table::update of the row
UpdWrite ==
  /\ Pc("uwrite")
  /\ \E w \in {TableUpdate(Join(pm, disk), Tbl(Here, expect.id), expect.cur,
                           expect.col, expect.val)} :
       Stepped(Res("ok", SetM(Here, w.m)),
               [expect EXCEPT !.pc = IF w.ok THEN "uindex" ELSE "failed",
                              !.mid = Content(Here)],
               IF w.ok THEN "ok" ELSE "err")

\* get_table: insert_index_at of the row as it is now
UpdIndex ==
  /\ Pc("uindex")
  /\ \E x \in {insert_index_at(Join(pm, disk), Tbl(Here, expect.id),
                 expect.cur,
                 [expect.data EXCEPT ![expect.col + 1] = expect.val])} :
       Stepped(Res(x.st, SetTable(SetM(Here, x.m), expect.id, x.t)),
               [expect EXCEPT !.pc = IF x.st # "ok" THEN "failed"
                                     ELSE IF expect.todo = <<>> THEN "cascade"
                                     ELSE "ucheck",
                              !.post = Content(Here)],
               x.st)

\* the loop over foreign_update that ends exec::update
UpdCascade ==
  /\ Pc("cascade")
  /\ \E r \in {CascadeUpdate(Here, expect.fu, expect.val, expect.perm)} :
       Stepped(r, [expect EXCEPT !.pc = IF r.st = "ok" THEN "done" ELSE "failed"],
               r.st)

\* the records of an INSERT
RecordLists == SeqsUpTo([1 .. 1 -> NullVals], MaxRecords) \ {<<>>}

NextRows ==
  \/ \E name \in ExecNames : Idle /\ ret.n < MaxRowStmts /\ CreateIndex(name)
  \/ \E name \in ExecNames, records \in RecordLists, checked \in BOOLEAN :
       InsStart(name, records, checked)
  \/ InsCheck
  \/ InsWrite
  \/ InsIndex
  \/ \E name \in ExecNames, cond \in Conds, val \in NullVals, perm \in RidOrders :
       UpdStart(name, cond, val, perm)
  \/ UpdRows
  \/ UpdCheck
  \/ UpdRemove
  \/ UpdWrite
  \/ UpdIndex
  \/ UpdCascade

SpecRows == InitRows /\ [][NextRows]_vars

\* the record or row at hand passes the type check, the check of every
\* unique set and the check of every foreign key, as the tables are now
ChecksPass ==
  LET t == Tbl(Here, expect.id)
      data == IF expect.stmt = "insert" THEN expect.cur
              ELSE [expect.data EXCEPT ![expect.col + 1] = expect.val]
      only == IF expect.stmt = "insert" THEN NULL ELSE expect.col
  IN  /\ IF expect.stmt = "insert" THEN check_type_insert(t.meta, data)
         ELSE check_column_type(t.meta, expect.val, expect.col)
      /\ UniqueLoop(Here, expect.id, data, t.meta.unique, only).st = "ok"
      /\ ForeignLoop(Here, data, t.meta.foreign_key, only).st = "ok"

\* C30: for each record of an INSERT and each row of an UPDATE the type,
\* uniqueness and foreign-key checks have passed and have changed neither
\* pages, slot bitmaps, rest_slot nor indices when the row is about to be
\* written; the write of the row changes no index and the insertion of its
\* index entries comes after it and changes no page; a record or row that a
\* check rejects leaves pages, slot bitmaps, rest_slot and indices as they
\* were.
C30_ValidateThenWrite ==
  InStmt =>
    /\ (Pc("write") \/ Pc("uremove")) =>
         /\ Content(Here) = expect.snap
         /\ ChecksPass
    /\ Pc("rejected") => Content(Here) = expect.snap
    /\ Pc("uwrite") => PagesOf(Content(Here)) = PagesOf(expect.snap)
    /\ (Pc("index") \/ Pc("uindex")) =>
         IndicesOf(Content(Here)) = IndicesOf(expect.mid)
    /\ Pc("index") =>
         rid2slot(expect.rid) \in
           PMReadPage(Join(pm, disk), DataPath(Tbl(Here, expect.id)),
                      rid2pagenum(expect.rid)).page.slot
    /\ ((Pc("check") \/ Pc("ucheck") \/ Pc("cascade")
          \/ (Pc("done") /\ expect.stmt = "insert")) /\ expect.post # <<>>) =>
         PagesOf(Content(Here)) = PagesOf(expect.post)

\* the second record of an INSERT into a table with an index is rejected
\* after the first was written and entered in the index
C30_Witness ==
  /\ Pc("rejected")
  /\ expect.stmt = "insert"
  /\ expect.post # <<>>
  /\ DOMAIN Tbl(Here, expect.id).indices # {}
  /\ Content(Here) = expect.snap
  /\ Content(Here) # expect.mid

(***************************************************************************)
(* SpecBitmap: the slot bitmap of one page header.  Bits are set and       *)
(* cleared as Table::insert and Table::delete do, and is_full and          *)
(* first_empty are asked for every slot count up to the bits of the        *)
(* bitmap.  disk is the page.                                              *)
(***************************************************************************)
SlotCounts == 1 .. FixedMaxSlot

InitBitmap ==
  /\ disk = ZeroPage
  /\ ret = [op |-> "new"]
  /\ expect = <<>>
  /\ pm = <<>>
  /\ db = <<>>
  /\ files = <<>>

\* set_bit_at(&mut header.slot, i)
SetBitAt(i) ==
  /\ i \notin disk.slot
  /\ disk' = [disk EXCEPT !.slot = @ \cup {i}]
  /\ ret' = [op |-> "set", i |-> i]
  /\ UNCHANGED <<pm, db, files, expect>>

\* clear_bit_at(&mut header.slot, i)
ClearBitAt(i) ==
  /\ i \in disk.slot
  /\ disk' = [disk EXCEPT !.slot = @ \ {i}]
  /\ ret' = [op |-> "clear", i |-> i]
  /\ UNCHANGED <<pm, db, files, expect>>

\* header.is_full(m)
AskIsFull(m) ==
  /\ ret' = [op |-> "is_full", m |-> m, full |-> is_full(disk, m)]
  /\ UNCHANGED <<pm, disk, db, files, expect>>

\* header.first_empty(m)
AskFirstEmpty(m) ==
  /\ ret' = [op |-> "first_empty", m |-> m, slot |-> first_empty(disk, m),
             full |-> is_full(disk, m)]
  /\ UNCHANGED <<pm, disk, db, files, expect>>

NextBitmap ==
  \/ \E i \in 0 .. (FixedMaxSlot - 1) : SetBitAt(i)
  \/ \E i \in 0 .. (FixedMaxSlot - 1) : ClearBitAt(i)
  \/ \E m \in SlotCounts : AskIsFull(m)
  \/ \E m \in SlotCounts : AskFirstEmpty(m)

SpecBitmap == InitBitmap /\ [][NextBitmap]_vars

\* the bits below m that are 0
ClearBelow(m) == (0 .. (m - 1)) \ disk.slot

\* C31: for every slot count m from 1 to the bits of the slot bitmap,
\* is_full(m) is true exactly when bits 0 .. m-1 are all 1, and
\* first_empty(m) is the smallest index below m whose bit is 0, None only
\* when is_full(m).
C31_BitmapFull ==
  /\ ret.op = "is_full" => (ret.full <=> ClearBelow(ret.m) = {})
  /\ ret.op = "first_empty" =>
       /\ ret.slot = NoSlot <=> ret.full
       /\ ret.slot # NoSlot =>
            /\ ret.slot \in ClearBelow(ret.m)
            /\ \A j \in ClearBelow(ret.m) : ret.slot <= j

\* the node reached from the sentinel after k next links
RECURSIVE LruNth(_, _)
LruNth(d, k) == IF k = 0 THEN 0 ELSE d[LruNth(d, k - 1)][2]

\* C32: after any sequence of access calls the LruRecord is a circular
\* doubly-linked list anchored at the sentinel: the next links from the
\* sentinel visit every index exactly once and come back to the sentinel,
\* and prev(next(x)) = x for every node x.
C32_LruWellFormed ==
  /\ {LruNth(ret.lru, k) : k \in 1 .. LruSize} = 1 .. LruSize
  /\ LruNth(ret.lru, LruSize + 1) = 0
  /\ \A x \in DOMAIN ret.lru : ret.lru[ret.lru[x][2]][1] = x

(***************************************************************************)
(* SpecChain: record/pagemanip.rs PageIter::remove on the page chains of   *)
(* one file.  A chain is built as Table does it, from pages cleared as     *)
(* list nodes and appended one after the other, in any order of the page   *)
(* numbers.  expect holds the pages of the chain in order and the pages    *)
(* removed from it.                                                        *)
(***************************************************************************)
ChainPageNums == 0 .. (ChainPages - 1)

\* the chains: the sequences of distinct page numbers
ChainOrders ==
  {s \in SeqsUpTo(ChainPageNums, ChainPages) :
     Len(s) > 0 /\ \A i, j \in 1 .. Len(s) : s[i] = s[j] => i = j}

\* the pages of s cleared as list nodes
RECURSIVE ClearNodes(_, _, _)
ClearNodes(m, f, s) ==
  IF s = <<>> THEN m
  ELSE ClearNodes(PMModifyPage(m, f, Head(s),
                    LAMBDA pg : clear_as_node(pg, Head(s))).m, f, Tail(s))

\* each page of s appended after the one before it
RECURSIVE AppendNodes(_, _, _)
AppendNodes(m, f, s) ==
  IF Len(s) < 2 THEN m
  ELSE AppendNodes(PageIterAppend(m, f, s[1], s[2]), f, Tail(s))

BuildChain(f, s) ==
  AppendNodes(ClearNodes(PMOpenFile(Join(PMNew(TablePoolSize),
                                         [n \in Names |-> NoFile]), f).m,
                         f, s), f, s)

InitChain ==
  \E s \in ChainOrders :
    /\ pm = Split(BuildChain("t0", s))
    /\ disk = BuildChain("t0", s).disk
    /\ expect = [chain |-> s, removed |-> {}]
    /\ ret = [op |-> "new"]
    /\ db = <<>>
    /\ files = <<>>

\* PageIter::new(pos, path).remove()
ChainRemove(k) ==
  /\ k \in 1 .. Len(expect.chain)
  /\ \E r \in {PageIterRemove(Join(pm, disk), "t0", expect.chain[k])} :
       /\ pm' = Split(r.m)
       /\ disk' = r.m.disk
       /\ ret' = [op |-> "remove", page |-> expect.chain[k], pos |-> r.pos,
                  at |-> IF Len(expect.chain) = 1 THEN "singleton"
                         ELSE IF k = 1 THEN "head"
                         ELSE IF k = Len(expect.chain) THEN "tail"
                         ELSE "middle",
                  want |-> IF k > 1 THEN expect.chain[k - 1]
                           ELSE IF k < Len(expect.chain) THEN expect.chain[k + 1]
                           ELSE expect.chain[k]]
       /\ expect' = [chain |-> SubSeq(expect.chain, 1, k - 1)
                                 \o SubSeq(expect.chain, k + 1, Len(expect.chain)),
                     removed |-> expect.removed \cup {expect.chain[k]}]
  /\ UNCHANGED <<db, files>>

\* a page removed is appended to the end of the chain again
ChainAppend(p) ==
  /\ p \in expect.removed
  /\ expect.chain # <<>>
  /\ pm' = Split(PageIterAppend(Join(pm, disk), "t0",
                                expect.chain[Len(expect.chain)], p))
  /\ disk' = PageIterAppend(Join(pm, disk), "t0",
                            expect.chain[Len(expect.chain)], p).disk
  /\ ret' = [op |-> "append", page |-> p]
  /\ expect' = [chain |-> Append(expect.chain, p),
                removed |-> expect.removed \ {p}]
  /\ UNCHANGED <<db, files>>

NextChain ==
  \/ \E k \in 1 .. ChainPages : ChainRemove(k)
  \/ \E p \in ChainPageNums : ChainAppend(p)

SpecChain == InitChain /\ [][NextChain]_vars

\* the header of a page as the pool shows it
HeaderOf(p) == PMReadPage(Join(pm, disk), "t0", p).page

\* the pages of s are a chain in this order: the prev of the head and the
\* next of the tail are the page itself
ChainInOrder(s) ==
  \A i \in 1 .. Len(s) :
    /\ HeaderOf(s[i]).prev_page = IF i = 1 THEN s[i] ELSE s[i - 1]
    /\ HeaderOf(s[i]).next_page = IF i = Len(s) THEN s[i] ELSE s[i + 1]

\* C33: PageIter::remove of the page at any position of a chain (head,
\* middle, tail, singleton) leaves the removed page linked to itself, leaves
\* the other pages a chain in the order they had, and moves the iterator to
\* the former previous page if there was one, else to the former next page.
C33_ChainRemove ==
  ret.op = "remove" =>
    /\ HeaderOf(ret.page).prev_page = ret.page
    /\ HeaderOf(ret.page).next_page = ret.page
    /\ ChainInOrder(expect.chain)
    /\ ret.pos = ret.want

\* the page in the middle of a chain of three or more has been removed
C33_Witness ==
  /\ ret.op = "remove"
  /\ ret.at = "middle"
  /\ Len(expect.chain) >= 2
  /\ ChainInOrder(expect.chain)
  /\ ret.pos # ret.page

(***************************************************************************)
(* SpecOrder: the entries of the index of t0 (x INT) after CREATE INDEX,   *)
(* INSERT, UPDATE and DELETE statements, compared with each other by       *)
(* Ord for EntryRef and with data keys by Ord for IndexKey.                *)
(***************************************************************************)
Ordering == Alive /\ ret.n < MaxOrderStmts

OrdInsert(val, checked) ==
  /\ Inserted(MetaOf("t0")) < MaxEntries
  /\ \E r \in {exec_insert(Here, "t0", <<val>>, checked)} :
       Apply(r, "insert", FALSE, TRUE)

NextOrder ==
  \/ Ordering /\ CreateIndex("t0")
  \/ \E val \in NullVals, checked \in BOOLEAN : Ordering /\ OrdInsert(val, checked)
  \/ \E cond \in Conds, val \in NullVals, perm \in RidOrders :
       Ordering /\ Update("t0", cond, val, perm)
  \/ \E cond \in Conds, perm \in RidOrders : Ordering /\ Delete("t0", cond, perm)

SpecOrder == InitAlter /\ [][NextOrder]_vars

\* the entries of the index of t0
IndexEntries ==
  IF <<0>> \in DOMAIN MetaTable("t0").indices
  THEN {MetaTable("t0").indices[<<0>>][i] :
          i \in 1 .. Len(MetaTable("t0").indices[<<0>>])}
  ELSE {}

\* a.cmp(b) of two entries, as the table is now
EntryOrd(a, b) == EntryCmp(Join(pm, disk), MetaTable("t0"), a, b, 0, FALSE)

\* C34: for the entries of one index over an unchanged table the comparator
\* of EntryRef is a strict total order: any two entries are comparable, it
\* is antisymmetric and transitive, and two entries compare Equal only if
\* they have the same rid.
C34_EntryTotalOrder ==
  Alive =>
    /\ \A a, b \in IndexEntries :
         /\ EntryOrd(a, b).st = "ok"
         /\ EntryOrd(a, b).ord = 0 - EntryOrd(b, a).ord
         /\ EntryOrd(a, b).ord = 0 => a.rid = b.rid
    /\ \A a, b, c \in IndexEntries :
         (EntryOrd(a, b).ord = -1 /\ EntryOrd(b, c).ord = -1) =>
           EntryOrd(a, c).ord = -1

\* the entries of the index Table::create_index has just built
BuiltEntries == {ret.list[i] : i \in 1 .. Len(ret.list)}

\* Ord for EntryRef of two entries of that index, as the table is now
BuiltCmp(a, b) == RefCmp(Join(pm, disk), TheTable, a, b, ret.cols, 1)

\* Ord for IndexKey of an entry of that index against a data key
BuiltDataCmp(e, data) == DataCmp(Join(pm, disk), TheTable, e, data, ret.cols, 1)

\* C35: comparison with a data key is monotone in the order of the index:
\* for entries e1 < e2 and a data key d, e1 Greater than d implies e2
\* Greater than d, and e2 Less than d implies e1 Less than d (keys of
\* several columns and NULL components included).
C35_DataKeyMonotone ==
  (Alive /\ ret.op = "create_index" /\ ret.st = "ok") =>
    \A e1, e2 \in BuiltEntries :
      \A data \in [1 .. Len(ret.cols) -> NullVals] :
        (/\ BuiltCmp(e1, e2).st = "ok" /\ BuiltCmp(e1, e2).ord = -1
         /\ BuiltDataCmp(e1, data).st = "ok"
         /\ BuiltDataCmp(e2, data).st = "ok") =>
          /\ BuiltDataCmp(e1, data).ord = 1 => BuiltDataCmp(e2, data).ord = 1
          /\ BuiltDataCmp(e2, data).ord = -1 => BuiltDataCmp(e1, data).ord = -1

\* C36: for every loaded table the key set of table.indices equals
\* meta.index_record, the set load_indices reads the indices of the table
\* from, after any sequence of statements.
C36_IndexRecordMatches ==
  Alive =>
    \A id \in DOMAIN db.current_tables :
      DOMAIN db.current_tables[id].indices =
        db.current_tables[id].meta.index_record

\* C37: when an INSERT of several records or an UPDATE of several rows
\* returns an error, the rows, slot bitmaps, rest_slot, page chains and
\* indices of every table are what they were when the statement began.
C37_FailedStatementChangesNothing ==
  (InStmt /\ (Pc("rejected") \/ Pc("failed"))) =>
    Content(Here) = expect.start

(***************************************************************************)
(* SpecSlots: one table under Table::insert, Table::delete and             *)
(* Table::reserve_for (the load of a file, cli.rs 77).  expect keeps the   *)
(* rest_slot that the last Table::insert decremented.                      *)
(***************************************************************************)
\* Table::reserve_for; reserve_page extends the data file with zero pages
TableReserveFor(m, t, n_slots) ==
  LET rest_slot == t.meta.rest_slot
      slot_needed == n_slots - rest_slot
      ms == max_slot(t.meta)
      remainder == slot_needed % ms
      page_needed == (slot_needed \div ms) + (IF remainder # 0 THEN 1 ELSE 0)
      pagenum == t.meta.max_pagenum + page_needed
      f == DataPath(t)
      len == Len(m.disk[f].pages)
  IN  IF n_slots > rest_slot
      THEN [m |-> [m EXCEPT !.disk[f].pages =
                     IF pagenum <= len THEN @
                     ELSE @ \o [i \in 1 .. (pagenum - len) |-> ZeroPage]],
            t |-> [t EXCEPT !.meta.rest_slot =
                     IF remainder = 0 THEN 0 ELSE ms - remainder]]
      ELSE [m |-> m, t |-> t]

\* the rest_slot Table::insert decrements: after get_available_start
RestAtInsert(t) ==
  IF t.meta.available_pages = NoneP THEN alloc_page(t.meta).rest_slot
  ELSE t.meta.rest_slot

\* the counter and the file stay within the pages of the model
InSlots ==
  /\ Alive
  /\ TheTable.meta.rest_slot <= MaxRestSlot
  /\ TheTable.meta.max_pagenum <= MaxPage

SlotInsert(val, checked) ==
  /\ InSlots
  /\ \E r \in {TableInsert(Join(pm, disk), TheTable, val, checked)} :
       /\ expect' = [rest_slot |-> RestAtInsert(TheTable)]
       /\ IF r.st = "panic"
          THEN ret' = Panic /\ UNCHANGED <<pm, disk, db, files>>
          ELSE /\ pm' = Split(r.m)
               /\ disk' = r.m.disk
               /\ db' = [db EXCEPT !.current_tables[0] = r.t]
               /\ ret' = [op |-> "insert", rid |-> r.rid]
               /\ UNCHANGED files

SlotDelete(rid) ==
  /\ InSlots
  /\ rid \in LiveRids(TheTable)
  /\ \E r \in {TableDelete(Join(pm, disk), TheTable, rid)} :
       IF r.st = "panic"
       THEN ret' = Panic /\ UNCHANGED <<pm, disk, db, files, expect>>
       ELSE /\ pm' = Split(r.m)
            /\ disk' = r.m.disk
            /\ db' = [db EXCEPT !.current_tables[0] = r.t]
            /\ ret' = [op |-> "delete", rid |-> rid]
            /\ expect' = <<>>
            /\ UNCHANGED files

SlotReserve(n_slots) ==
  /\ InSlots
  /\ \E r \in {TableReserveFor(Join(pm, disk), TheTable, n_slots)} :
       /\ pm' = Split(r.m)
       /\ disk' = r.m.disk
       /\ db' = [db EXCEPT !.current_tables[0] = r.t]
       /\ ret' = [op |-> "reserve_for"]
       /\ expect' = <<>>
       /\ UNCHANGED files

NextSlots ==
  \/ \E val \in [1 .. colnum(TheTable.meta) -> {MaxVal}], checked \in BOOLEAN :
       SlotInsert(val, checked)
  \/ \E rid \in 0 .. (MaxPage * FixedMaxSlot + FixedMaxSlot - 1) : SlotDelete(rid)
  \/ \E n_slots \in 1 .. MaxReserve : SlotReserve(n_slots)

SpecSlots == InitTable /\ [][NextSlots]_vars

\* C38: rest_slot never underflows: Table::insert is never executed with
\* rest_slot equal to 0, whatever inserts, deletes and reserve_for came
\* before.
C38_RestSlotNoUnderflow ==
  "rest_slot" \in DOMAIN expect => expect.rest_slot # 0

(***************************************************************************)
(* SpecUnopened: a pool whose read_page and modify_page are also called    *)
(* for a file that is not open.  ret keeps whether the file was open and   *)
(* what the call left of the pool it found.                                *)
(***************************************************************************)
InitUnopened ==
  /\ pm = PMNew(PoolSize)
  /\ disk = [f \in Names |-> NoFile]
  /\ ret = [op |-> "init", n |-> 0]
  /\ expect = <<>>
  /\ db = DatabaseNew
  /\ files = NoFiles

Called(op, r, f, pagenum) ==
  [op |-> op, ok |-> r.ok, file |-> f, page |-> pagenum, n |-> ret.n + 1,
   open |-> f \in pm.file_record,
   mapped |-> {i \in CacheIdx(pm) : r.m.index_record[i] # pm.index_record[i]},
   filled |-> {i \in CacheIdx(pm) : r.m.page_cache[i] # pm.page_cache[i]},
   marked |-> {i \in CacheIdx(pm) : (i \in r.m.dirty) # (i \in pm.dirty)}]

\* the call leaves the pool and the files of r
Leaves(r, rt) ==
  /\ ret.n < MaxPoolCalls
  /\ pm' = Split(r.m)
  /\ disk' = r.m.disk
  /\ ret' = rt
  /\ UNCHANGED <<expect, db, files>>

OpenAny(f) ==
  \E r \in {PMOpenFile(Join(pm, disk), f)} :
    Leaves(r, [op |-> "open_file", n |-> ret.n + 1])

CloseAny(f) ==
  \E r \in {PMCloseFile(Join(pm, disk), f)} :
    Leaves(r, [op |-> "close_file", n |-> ret.n + 1])

ReadAny(f, pagenum) ==
  \E r \in {PMReadPage(Join(pm, disk), f, pagenum)} :
    Leaves(r, Called("read_page", r, f, pagenum))

ModifyAny(f, pagenum, v) ==
  \E r \in {PMModifyPage(Join(pm, disk), f, pagenum, LAMBDA pg : FillPage(v))} :
    Leaves(r, Called("modify_page", r, f, pagenum))

NextUnopened ==
  \/ \E f \in PoolFiles : OpenAny(f)
  \/ \E f \in PoolFiles : CloseAny(f)
  \/ \E f \in PoolFiles : \E p \in PoolPages(f) : ReadAny(f, p)
  \/ \E f \in PoolFiles : \E p \in PoolPages(f), v \in Patterns :
        ModifyAny(f, p, v)

SpecUnopened == InitUnopened /\ [][NextUnopened]_vars

\* C39: read_page or modify_page of a file that is not open returns an
\* error and leaves the pool as it was: no (file, page) mapping is added and
\* no buffer and no dirty bit changes.
C39_UnopenedLeavesPool ==
  ("open" \in DOMAIN ret /\ ~ret.open) =>
    /\ ~ret.ok
    /\ ret.mapped = {}
    /\ ret.filled = {}
    /\ ret.marked = {}

(***************************************************************************)
(* SpecCreate: CREATE TABLE with any name and any referenced table, and    *)
(* DROP TABLE, in a database in use.  expect keeps the catalog the last    *)
(* CREATE TABLE found.                                                     *)
(***************************************************************************)
InCreate == Alive /\ ret.n < MaxCreateStmts

CreateAny(name, unique, fk) ==
  \E r \in {create_table(Here, name, unique, fk)} :
    IF r.st = "panic"
    THEN ret' = Panic /\ UNCHANGED <<pm, disk, db, files, expect>>
    ELSE /\ pm' = Split(r.c.m)
         /\ disk' = r.c.m.disk
         /\ db' = r.c.db
         /\ files' = r.c.files
         /\ ret' = [op |-> "create_table", st |-> r.st, dup |-> FALSE,
                    same |-> TRUE, hist |-> Hist(r.st, "create_table"),
                    n |-> ret.n + 1]
         /\ expect' = [name |-> name, fk |-> fk, id_record |-> db.id_record,
                       loaded |-> DOMAIN db.current_tables]

NextCreate ==
  \/ \E name \in Names, unique \in BOOLEAN, fk \in Names \cup {NoFk} :
       InCreate /\ CreateAny(name, unique, fk)
  \/ \E name \in Names : InCreate /\ DropTable(name)

SpecCreate == InitExec /\ [][NextCreate]_vars

\* C40: a CREATE TABLE that returns an error leaves the catalog as it was:
\* no table name or id is registered and no table is loaded.
C40_FailedCreateLeavesCatalog ==
  (Alive /\ ret.op = "create_table" /\ ret.st = "err") =>
    /\ db.id_record = expect.id_record
    /\ DOMAIN db.current_tables = expect.loaded


====
